CONSTANTS
    Emails = {"ann", "bob"}
    ShortPassword = "short"
    LongPassword = "long enough"
    NoText = ""
    Nobody = "nobody"
    MaxForms = 3
SPECIFICATION Spec
PROPERTY
    ErrorMeansNoAccount
