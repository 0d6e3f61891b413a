\* bta_hl_sdp_update() failing deletes the record of app 0 but leaves the
\* UUIDs it advertised through bta_sys_add_uuid().
CONSTANTS
    Apps = {0, 1}
    AppConfigs <- MCAppConfigs
    NUM_SUP_FEATURE_ELEMS = 3
    SDP_MAX_RECORDS = 2
    OtherRecord = 1
    MaxCalls = 4
SPECIFICATION Spec
\* The model stops after MaxCalls calls.
CHECK_DEADLOCK FALSE
INVARIANT UuidsHaveRecords
