SPECIFICATION FairSpec
CONSTANT MaxMail = 2
INVARIANTS TypeOK FreedUnused MailShown
PROPERTY QuitSaves
