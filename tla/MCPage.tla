---- MODULE MCPage ----
EXTENDS Page

MCTexts == {"mess", "tidy", "bad"}
MCIds == {"idm", "idt", "idb"}
MCID == [mess |-> "idm", tidy |-> "idt", bad |-> "idb"]
MCFormatted == [mess |-> "tidy", tidy |-> "tidy", bad |-> "malformed"]

====
