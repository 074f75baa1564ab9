SPECIFICATION FairSpec
PROPERTIES ApplySettles
