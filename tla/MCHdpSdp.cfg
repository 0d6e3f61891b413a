\* Three HDP apps registering and app 0's record updated, with any SDP_Add*
\* call failing.  The SDP database holds three records, one of them another
\* profile's: two HDP records fit, so a peer's resumed walk has a further
\* record to find, and the third app meets SDP_CreateRecord() returning 0.
\* Peers discover the records in between.
CONSTANTS
    Apps = {0, 1, 2}
    AppConfigs <- MCAppConfigs
    NUM_SUP_FEATURE_ELEMS = 3
    SDP_MAX_RECORDS = 3
    OtherRecord = 1
    MaxCalls = 4
SPECIFICATION Spec
\* The model stops after MaxCalls calls.
CHECK_DEADLOCK FALSE
INVARIANTS TypeOK RecordsMatchRegistrations
PROPERTIES DiscoveryReadsRegistrations
