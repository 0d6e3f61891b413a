-------------------------------- MODULE HdpSdp --------------------------------
(***************************************************************************)
(* The SDP side of the Health Device Profile, bta/hl/bta_hl_sdp.c.         *)
(* bta_hl_sdp_register() creates the SDP record of an HDP application and  *)
(* fills it attribute by attribute; any SDP_Add* call may fail, and then   *)
(* the record is deleted.  bta_hl_sdp_update() rewrites the attributes of  *)
(* the record of application 0 (its app_id argument is unused).  A peer    *)
(* reads the database back through bta_hl_find_sink_or_src_srv_class_in_db *)
(* and bta_hl_fill_sup_feature_list().                                     *)
(*                                                                         *)
(* The SDP database is a sequence of records in the order SDP keeps them;  *)
(* a record is its handle, the attributes it holds, its service class UUID *)
(* list and its supported-feature list as data elements.  A text string is *)
(* its length (0 is the empty string, stored as NULL).                     *)
(***************************************************************************)
EXTENDS Integers, Sequences, FiniteSets, Functions, FiniteSetsExt

CONSTANTS
    Apps,                   \* application indexes; 0 is the one update() uses
    AppConfigs,             \* the registration parameters an app may give
    NUM_SUP_FEATURE_ELEMS,  \* BTA_HL_NUM_SUP_FEATURE_ELEMS, scaled down
    SDP_MAX_RECORDS,        \* records the SDP database holds
    OtherRecord,            \* a record of another profile, present from the start
    MaxCalls                \* bound on register() and update() calls

ASSUME 0 \in Apps

SOURCE == "HDP_SOURCE"
SINK == "HDP_SINK"

\* An application control block before registration: app_role_mask 0.
ZeroConfig == [role |-> "none", advertize |-> FALSE, text |-> {}, mdeps |-> <<>>]

Statuses == {"none", "OK", "SDP_NO_RESOURCE", "SDP_FAIL"}

VARIABLES
    db,           \* the SDP database: a sequence of records
    nextHandle,   \* the handle SDP_CreateRecord() hands out next
    cfg,          \* cfg[a]: the sup_feature and names of p_cb of app a
    sdpHandle,    \* sdpHandle[a]: p_cb->sdp_handle, 0 = none
    regd,         \* regd[a]: app a is registered with bta_hl
    status,       \* status[a]: what the last register() of a returned
    updStatus,    \* what the last update() returned
    uuids,        \* the service class UUIDs added with bta_sys_add_uuid()
    peerView,     \* what the last peer discovery read: handle and parsed features
    calls,        \* register() and update() calls made
    maxWritten    \* ghost: most list_elem[] entries a call wrote

vars == <<db, nextHandle, cfg, sdpHandle, regd, status, updStatus, uuids,
          peerView, calls, maxWritten>>

(* The early return of both functions: a source-only app that does not    *)
(* advertise its source role.                                              *)
NotAdvertised(c) == c.role = "source" /\ ~c.advertize

(* svc_class_id_list: SOURCE, replaced by SINK for a sink-only mask, and   *)
(* SOURCE, SINK for any mask other than source (0 included).               *)
ServiceClasses(c) ==
    IF c.role = "sink" THEN <<SINK>>
    ELSE IF c.role = "source" THEN <<SOURCE>>
    ELSE <<SOURCE, SINK>>

(* The attributes added, one group per `if (result)` block, in order.      *)
(* SDP_AddProtocolList() and SDP_AddProfileDescriptorList() share a block; *)
(* the three names are added only when non-empty.                          *)
Optional(c, t) == IF t \in c.text THEN {t} ELSE {}

AttrGroups(c) ==
    << {"class"}, {"proto", "profile"}, {"addproto"},
       Optional(c, "name"), Optional(c, "desp"), Optional(c, "provider"),
       {"supfeat"}, {"exch"}, {"mcap"}, {"browse"} >>

AttrsBefore(c, k) == UNION {AttrGroups(c)[g] : g \in 1..(k - 1)}

AllAttrs(c) == AttrsBefore(c, Len(AttrGroups(c)) + 1)

(* The SDP call that fails first, as its group (none = 0).  A group with   *)
(* no call cannot fail.                                                    *)
FailPoints(c) == {0} \cup {g \in DOMAIN AttrGroups(c) : AttrGroups(c)[g] # {}}

(* The supported-feature loop of both functions: one list_elem per data   *)
(* type of every MDEP, cnt counting the entries written.  Reaching        *)
(* BTA_HL_NUM_SUP_FEATURE_ELEMS sets result FALSE and breaks the inner     *)
(* loop only: the outer loop goes on with the next MDEP.                   *)
FeatureElem(m, i, j) ==
    [mdep_id |-> i, data_type |-> <<i, j>>, mdep_role |-> m[i].role,
     desp |-> m[i].types[j]]

RECURSIVE FeatureLoop(_, _, _, _, _)
FeatureLoop(m, i, j, list, ok) ==
    IF i > Len(m) THEN [list |-> list, ok |-> ok]
    ELSE IF j > Len(m[i].types) THEN FeatureLoop(m, i + 1, 1, list, ok)
    ELSE LET next == Append(list, FeatureElem(m, i, j)) IN
         IF Len(next) = NUM_SUP_FEATURE_ELEMS
         THEN FeatureLoop(m, i + 1, 1, next, FALSE)
         ELSE FeatureLoop(m, i, j + 1, next, ok)

Features(c) == FeatureLoop(c.mdeps, 1, 1, <<>>, TRUE)

(* bta_hl_compose_supported_feature_list(): one data element sequence per *)
(* entry: uint8 mdep_id, uint16 data_type, uint8 mdep_role, and the text   *)
(* of the description when it has one.                                     *)
ComposeElem(e) ==
    [type |-> "seq",
     val |-> << [type |-> "uint8", val |-> e.mdep_id],
                [type |-> "uint16", val |-> e.data_type],
                [type |-> "uint8", val |-> e.mdep_role] >>
             \o (IF e.desp # 0 THEN << [type |-> "text", val |-> e.desp] >> ELSE <<>>)]

bta_hl_compose_supported_feature_list(list) ==
    [x \in DOMAIN list |-> ComposeElem(list[x])]

(* bta_hl_fill_sup_feature_list(): every element must be a sequence; its  *)
(* first four items are mdep_id, data_type, mdep_role and the description *)
(* (NULL when absent).                                                     *)
FillElemThreeItems(items) ==
    [mdep_id |-> items[1].val, data_type |-> items[2].val,
     mdep_role |-> items[3].val, desp |-> 0]

FillElem(items) ==
    [mdep_id |-> items[1].val, data_type |-> items[2].val,
     mdep_role |-> items[3].val, desp |-> IF Len(items) >= 4 THEN items[4].val ELSE 0]

bta_hl_fill_sup_feature_list(attr) ==
    IF \E x \in DOMAIN attr : attr[x].type # "seq" THEN "FALSE"
    ELSE [x \in DOMAIN attr |-> FillElem(attr[x].val)]

(* bta_hl_find_sink_or_src_srv_class_in_db(): the first record after      *)
(* p_start_rec (from the first when NULL) whose service class ID list has  *)
(* the HDP sink or source UUID; 0 is NULL.                                 *)
HdpRecord(rec) ==
    "class" \in rec.attrs /\ \E x \in DOMAIN rec.classes : rec.classes[x] \in {SOURCE, SINK}

RECURSIVE FindFrom(_, _)
FindFrom(d, k) ==
    IF k > Len(d) THEN 0
    ELSE IF HdpRecord(d[k]) THEN d[k].handle
    ELSE FindFrom(d, k + 1)

\* Mutant: the walk resumes past the record after p_start_rec.
FindResumeSkipsNext(d, start) ==
    IF start = 0 THEN FindFrom(d, 1)
    ELSE FindFrom(d, (CHOOSE k \in DOMAIN d : d[k].handle = start) + 2)

bta_hl_find_sink_or_src_srv_class_in_db(d, start) ==
    IF start = 0 THEN FindFrom(d, 1)
    ELSE FindFrom(d, (CHOOSE k \in DOMAIN d : d[k].handle = start) + 1)

(* The peer's query loop: find from NULL, then from each record found.    *)
RECURSIVE AllHdpRecords(_, _)
AllHdpRecords(d, start) ==
    LET h == bta_hl_find_sink_or_src_srv_class_in_db(d, start) IN
    IF h = 0 THEN <<>> ELSE <<h>> \o AllHdpRecords(d, h)

RecordOf(h) == db[CHOOSE k \in DOMAIN db : db[k].handle = h]

Live(h) == \E k \in DOMAIN db : db[k].handle = h

(* The record the calls of groups before k leave, and that record kept in *)
(* the database or deleted: the failure path calls SDP_DeleteRecord() and *)
(* zeroes p_cb->sdp_handle whenever the handle is non-zero.                *)
Built(h, c, k, list) ==
    [handle |-> h, attrs |-> IF k = 0 THEN AllAttrs(c) ELSE AttrsBefore(c, k),
     classes |-> ServiceClasses(c), feats |-> bta_hl_compose_supported_feature_list(list)]

DeleteOnFailureSkipped(d, h) == d

DeleteOnFailure(d, h) == SelectSeq(d, LAMBDA rec : rec.handle # h)

(* SDP_CreateRecord() returning 0: no free record in the database.        *)
SdpCreateRecordFailsPastEnd == Len(db) > SDP_MAX_RECORDS

SdpCreateRecordFails == Len(db) = SDP_MAX_RECORDS

Init ==
    /\ db = << [handle |-> OtherRecord, attrs |-> {"class"}, classes |-> <<"OTHER">>,
                feats |-> <<>>] >>
    /\ nextHandle = OtherRecord + 1
    /\ cfg = [a \in Apps |-> ZeroConfig]
    /\ sdpHandle = [a \in Apps |-> 0]
    /\ regd = [a \in Apps |-> FALSE]
    /\ status = [a \in Apps |-> "none"]
    /\ updStatus = "none"
    /\ uuids = {}
    /\ peerView = <<>>
    /\ calls = 0
    /\ maxWritten = 0

(* bta_hl_sdp_register(app_idx) for an app bta_hl registers with the      *)
(* parameters c; bta_hl keeps the app registered only when it returns OK.  *)
bta_hl_sdp_register(a, c) ==
    /\ ~regd[a] /\ calls < MaxCalls
    /\ calls' = calls + 1
    /\ cfg' = [cfg EXCEPT ![a] = c]
    /\ IF NotAdvertised(c)
       THEN /\ status' = [status EXCEPT ![a] = "OK"]
            /\ regd' = [regd EXCEPT ![a] = TRUE]
            /\ UNCHANGED <<db, nextHandle, sdpHandle, uuids, maxWritten>>
       ELSE IF SdpCreateRecordFails
       THEN /\ sdpHandle' = [sdpHandle EXCEPT ![a] = 0]
            /\ status' = [status EXCEPT ![a] = "SDP_NO_RESOURCE"]
            /\ UNCHANGED <<db, nextHandle, regd, uuids, maxWritten>>
       ELSE LET h == nextHandle
                f == Features(c)
            IN /\ nextHandle' = nextHandle + 1
               /\ maxWritten' = Max({maxWritten, Len(f.list)})
               /\ \E k \in FailPoints(c) :
                    LET rec == Built(h, c, k, f.list) IN
                    IF k = 0 /\ f.ok
                    THEN /\ db' = Append(db, rec)
                         /\ sdpHandle' = [sdpHandle EXCEPT ![a] = h]
                         /\ uuids' = uuids \cup Range(ServiceClasses(c))
                         /\ status' = [status EXCEPT ![a] = "OK"]
                         /\ regd' = [regd EXCEPT ![a] = TRUE]
                    ELSE /\ db' = DeleteOnFailure(Append(db, rec), h)
                         /\ sdpHandle' = [sdpHandle EXCEPT ![a] = 0]
                         /\ status' = [status EXCEPT ![a] = "SDP_FAIL"]
                         /\ UNCHANGED <<regd, uuids>>
    /\ UNCHANGED <<updStatus, peerView>>

(* bta_hl_sdp_update(app_id): the same attributes written again into the  *)
(* record of application 0, whatever app_id is.  SDP_Add* on handle 0 (no *)
(* record) fails.  SDP_AddAttribute() replaces an attribute already there. *)
bta_hl_sdp_update ==
    LET c == cfg[0]
        h == sdpHandle[0]
        f == Features(c)
    IN /\ calls < MaxCalls
       /\ calls' = calls + 1
       /\ IF NotAdvertised(c)
          THEN /\ updStatus' = "OK"
               /\ UNCHANGED <<db, sdpHandle, uuids, maxWritten>>
          ELSE /\ maxWritten' = Max({maxWritten, Len(f.list)})
               /\ \E k \in FailPoints(c) :
                    IF k = 0 /\ f.ok /\ h # 0
                    THEN LET old == RecordOf(h)
                             new == Built(h, c, 0, f.list)
                         IN /\ db' = [x \in DOMAIN db |->
                                        IF db[x].handle = h
                                        THEN [new EXCEPT !.attrs = @ \cup old.attrs]
                                        ELSE db[x]]
                            /\ uuids' = uuids \cup Range(ServiceClasses(c))
                            /\ updStatus' = "OK"
                            /\ UNCHANGED sdpHandle
                    ELSE /\ db' = IF h # 0 THEN DeleteOnFailure(db, h) ELSE db
                         /\ sdpHandle' = [sdpHandle EXCEPT ![0] = 0]
                         /\ updStatus' = "SDP_FAIL"
                         /\ UNCHANGED uuids
    /\ UNCHANGED <<nextHandle, cfg, regd, status, peerView>>

(* A peer's service discovery of this device: it walks the HDP records    *)
(* with bta_hl_find_sink_or_src_srv_class_in_db() and reads each          *)
(* supported-feature list with bta_hl_fill_sup_feature_list().            *)
Discover ==
    /\ peerView' = [x \in DOMAIN AllHdpRecords(db, 0) |->
                      LET h == AllHdpRecords(db, 0)[x] IN
                      [handle |-> h, parsed |-> bta_hl_fill_sup_feature_list(RecordOf(h).feats)]]
    /\ peerView' # peerView
    /\ UNCHANGED <<db, nextHandle, cfg, sdpHandle, regd, status, updStatus, uuids,
                   calls, maxWritten>>

Next ==
    \/ \E a \in Apps, c \in AppConfigs : bta_hl_sdp_register(a, c)
    \/ bta_hl_sdp_update
    \/ Discover

Spec == Init /\ [][Next]_vars

-----------------------------------------------------------------------------
(* Properties *)

TypeOK ==
    /\ \A k \in DOMAIN db :
         /\ db[k].handle \in Nat
         /\ db[k].attrs \subseteq AllAttrs([text |-> {"name", "desp", "provider"}])
         /\ Range(db[k].classes) \subseteq {SOURCE, SINK, "OTHER"}
    /\ Len(db) <= SDP_MAX_RECORDS
    /\ cfg \in [Apps -> AppConfigs \cup {ZeroConfig}]
    /\ sdpHandle \in [Apps -> Nat]
    /\ regd \in [Apps -> BOOLEAN]
    /\ status \in [Apps -> Statuses] /\ updStatus \in Statuses
    /\ uuids \subseteq {SOURCE, SINK}
    /\ calls \in 0..MaxCalls

(* The database holds, besides other profiles' records, exactly one       *)
(* complete record per app whose p_cb->sdp_handle is set, with every      *)
(* attribute its parameters call for and the features it registered: a    *)
(* failure in any SDP_Add* step leaves no half-built or orphan record.    *)
RecordsMatchRegistrations ==
    /\ \A k \in DOMAIN db : HdpRecord(db[k]) \/ db[k].handle = OtherRecord
         => \/ db[k].handle = OtherRecord
            \/ \E a \in Apps : sdpHandle[a] = db[k].handle
    /\ \A a \in Apps : sdpHandle[a] # 0 =>
         /\ Live(sdpHandle[a])
         /\ RecordOf(sdpHandle[a]).attrs = AllAttrs(cfg[a])
         /\ RecordOf(sdpHandle[a]).feats = bta_hl_compose_supported_feature_list(Features(cfg[a]).list)
    /\ \A a, b \in Apps : a # b /\ sdpHandle[a] # 0 => sdpHandle[a] # sdpHandle[b]

(* A peer's discovery finds the record of every app that has one, and     *)
(* reads back from it exactly the features that app registered: the       *)
(* record walk skips no HDP record and stops at none of another profile,   *)
(* and fill_sup_feature_list() parses what compose wrote.                  *)
DiscoveryReadsRegistrations ==
    [][peerView' # peerView =>
         /\ {peerView'[x].handle : x \in DOMAIN peerView'}
              = {sdpHandle[a] : a \in {b \in Apps : sdpHandle[b] # 0}}
         /\ \A x \in DOMAIN peerView', a \in Apps :
              sdpHandle[a] = peerView'[x].handle
                => peerView'[x].parsed = Features(cfg[a]).list]_vars

(* Every HDP UUID advertised through bta_sys_add_uuid() has a record in   *)
(* the SDP database that serves it.                                        *)
UuidsHaveRecords ==
    \A u \in uuids : \E k \in DOMAIN db : HdpRecord(db[k]) /\ u \in Range(db[k].classes)

(* The supported-feature loop never writes past list_elem[].               *)
FeatureWritesInBounds == maxWritten <= NUM_SUP_FEATURE_ELEMS
=============================================================================
