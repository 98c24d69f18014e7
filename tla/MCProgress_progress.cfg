\* Every part comes to an end.
SPECIFICATION FairSpec
PROPERTIES Preprocessed MailEnds Answered NothingLeft
CHECK_DEADLOCK FALSE
