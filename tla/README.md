# TLA+ models of the MediaTek Bluetooth HCI dump, firmware logger and neighbours

This directory holds TLA+ models of three MediaTek additions to the Android
Bluetooth stack under `src/system/bt/mediatek/`, with the TLC configurations
that check them. It also models four smaller components elsewhere under
`src/`: netd's PerfController, the audio latency pulse detector, the ext4
encryption-policy helper used by vold, and the SDP record of the Health
Device Profile (HDP).

- **The HCI data dump**, `hci/hci_data_dump.c`, has three parts:
  - a set of compiled-in schema tables, one per HCI command group, plus the events and the LE meta subevents;
  - a decoder that walks those tables and prints every command and event in readable form;
  - a small module with its own thread and queue, fed by `display_hci_data()` from the HCI layer's threads.
- **The firmware logger**, `fw_log/fw_logger.c`, runs as a module with a thread and a queue:
  - `filter_fw_log()` picks out the firmware log events arriving from the controller;
  - `capture_fw_log()` queues them;
  - the logger thread writes them into a set of rotating log files in a folder (`create_fw_log_file()`, `event_fw_log_data_ready()`);
  - `init_fw_logger()` first configures the controller's logging with up to three vendor commands (C0, C1, C2), built from the `MtkBtFWLogOpen` configuration string, and waits for each answer.
- **The MediaTek stack configuration override**, `conf/mdroid_stack_config.c`. When the stack loads `bt_stack.conf`, `parse_override_cfg()` follows its `MtkStackConfigOverride` key to a redirect file (such as `/sdcard/btsc`), or falls back to `bt_stack.conf.sqc` when the build sets `MTK_STACK_CONFIG_DEFAULT_OVERRIDE`. It takes the redirect file's `OverrideConf` value, resolves the three preset names under `/etc/bluetooth/`, test-opens the result, and merges it into the config with `config_override()`. The firmware logger reads its keys from that config.
- **netd's PerfController**, `netd/server/PerfController.cpp`, loads the MediaTek PerfService library with `dlopen()`. It registers and enables CPU-boost scenarios when tethering starts, and a low-power scenario for `enter_little_cpu()`.
- **The audio latency pulse detector**, `media/audio_utils/pulse.c`, is called on every buffer of a stage of the audio path. It logs the first sample at or above a level, then stays quiet for `duration` frames.
- **HDP SDP records**, `bt/bta/hl/bta_hl_sdp.c`. `bta_hl_sdp_register()` creates an HDP application's SDP record and adds its attributes one SDP call at a time, deleting the record if any call fails. `bta_hl_sdp_update()` writes the attributes again. A peer reads the records back with `bta_hl_find_sink_or_src_srv_class_in_db()` and `bta_hl_fill_sup_feature_list()`.
- **ext4 encryption policy**, `extras/ext4_utils/ext4_crypt.cpp`. In `e4crypt_policy_ensure()`, vold gives an empty directory its encryption policy, or checks that a non-empty one already has it.

The HCI dump and the firmware logger interact with the stack in the same way. Producer threads call into a module,
and a module thread drains that module's queue. The stack's module manager
runs `start_up()` and `shut_down()` on the module, and both tear down the
queue and thread that the producers use. The firmware logger's configuration
runs on the init thread and is answered on the HCI thread, through futures.
It reads its keys from the stack config that `parse_override_cfg()` built
when Bluetooth was enabled, so files another process edits between two
enables decide what the next init sees.
The other four components do not interact with the Bluetooth stack or with
each other.

## Modules

| Module | Models | State and actions |
|---|---|---|
| `HciSchema` | The tables `HCI_*_COMMANDS`, `HCI_EVENTS`, `LE_META_EVENTS`, the display-type enum, the special-parameter ids and the `*_NUM` counts | Constants only. A table is a function from slot to entry. A slot the C initialiser leaves out is the zero entry (`Slot`). |
| `HciResolver` | `get_matched_hci_cmd_repr()`, `GET_CMD_AT`, `HCI_OGF/OCF` and the event-table lookups | Pure operators. |
| `HciField` | `parse_parameter()` and `parse_special_displayed_parameters()` | Pure operators. A rendered value is abstracted to its printf kind, its truncation flag, and the number `strtol` reads back from it. The decoder reads values back for repeat counts, back-referenced lengths and opcodes, so that read-back is modelled by what it does. |
| `HciDecoder` | `parse_hci_instance()`, `parse_hci_command()` (including Set_Event_Filter) and `parse_hci_event()` (Command Complete, Command Status, LE Meta) | Variables: `phase`, `walk` (the loop counters of `parse_hci_instance`), `values` (`hci_object->value[]`), `left` (`left_len`), `pos` (how far the data pointer has moved), and `ub` (an array was indexed past its end). Each call of `parse_parameter()` is one step. |
| `HciDump` | `start_up()`, `shut_down()`, `display_hci_data()`, `hci_raw_data_ready()` | The queue and thread pointers hold the number of the `start_up` that made them, or 0 for NULL. Shut-down is split into its four statements. A producer's check and its enqueue are two steps. |
| `FwLogFiles` | `create_fw_log_file()` and `event_fw_log_data_ready()` | Variables: `dir` (the folder, a set of files with index, `_curr` flag, birth order, header length and whether written), `index`, `path`, `fd` and `size` (the statics), plus a `pc` through the steps mkdir, scan, rename, remove, open and header. `Restart` is the process dying and starting again: every static is lost and the folder is kept. |
| `FwLogArchive` | what `create_fw_log_file()` promises | The abstract rotation. Its one variable `logs` is the set of logs kept, each named by the `open()` that began it. `BeginLog` adds a log newer than all kept, drops at most the oldest, and keeps at most `MaxCount`. `DropOldest` removes the oldest. `FwLogFiles` instances it with `logs <- {f.born : f \in dir}` (the refinement mapping `Archive`), and `ArchiveSpec == Archive!Spec` is checked as a temporal property. |
| `FwLogLifecycle` | `start_up()`, `shut_down()`, `filter_fw_log()`, `capture_fw_log()` and the logger thread | Receivers are the HCI threads that hand packets in. `owner` tracks, for each packet, who must free it. |
| `HciValidate` | `check_hci_unit_group()` and `validate_const_data_format()` | Pure operators: the set of FAIL lines the self-check would log. |
| `FwLogConfig` | `init_fw_logger()`, `check_fw_log_config()`, the two HCI command callbacks, `process_command_complete_event_header()`, `parse_fwlog_pairs()`, `deinit_fw_logger()` | `pc` is where the init thread is: idle, or waiting on C0, C1 or C2. `fut` is the `cmd_response_future`, and `outstanding` is the command the HCI layer has yet to answer. `sent` holds the commands transmitted, with their lengths. `smashed` records a write past `C2_data`. The statics are `s_log_max_size` (MiB, kept to 32 bits) and `s_log_max_count`. A config row is abstracted to the number of bytes `READ_STR_TO_ARRAY` stores, plus the bytes the code reads back (`C1[4]`, size, count). |
| `StackConfig` | `parse_override_cfg()`, with `config_override()` as a merge of keys | The build (`fpathLen`, `defaultOverride`), the `MtkStackConfigOverride` value (`redir`), the files that exist (`files`) and the redirect file's `OverrideConf` (`ovconf`). Paths are strings, so `strlcpy()` truncation and the length check before `strcat()` are exact. `LoadStackConfig` is the function up to its test `fopen()`. `ConfigOverride` is the second open and the merge. `EditFiles` is another process creating or removing a writable file, or rewriting `OverrideConf`, at any time, including between those two steps. |
| `FwLogStack` | The composition of `StackConfig` and `FwLogConfig` | `StackStart` loads the stack config while Bluetooth is off. `FwInit` is `init_fw_logger()` reading the config that load produced (`InitFwLoggerFrom(conf)`). `loaded` makes every init follow a load. |
| `PerfController` | `load_PerfService()`, `enable_Perf_RPS()` with `EnableRPS()`, `disable_Perf()`, `enter_little_cpu()`, `exit_little_cpu()`, `set_ack_reduction()`, `restore_ack_reduction()` | The two handle statics, the nine function pointers (`ptr`), the library installed (`lib`, a set of symbols), the scenario table of PerfService (`scn`: free, enabled or disabled), `crashed` for a NULL call, `atoi(NULL)` or an array overrun, and the two kernel files netd writes: `ack` (`tcp_ack_number`) and `rps` (each interface's `rps_cpus`). Every `writeFile()` may fail and leave its file unchanged. `IfaceReset` is the kernel dropping an interface's mask, which the comment above `disable_Perf()` relies on. |
| `PulseDetector` | `detectPulse()` and `detectPulse_()` for one tag | `keepCount` and `keepCountAll` are the statics. The first loop is the RECURSIVE operator `Scan` over the set of high samples. The ghost variables `lastPulse`, `skippedLate` and `maxSkippedLate` apply the reference definition of a debounce. |
| `Ext4Crypt` | `e4crypt_policy_ensure()`, `is_dir_empty()`, `e4crypt_policy_set/get/check()` | `entries` and `policy` describe the directory. `pc` splits the call after `is_dir_empty()`, so other processes (`CreateEntry`, `RemoveEntry`) can act in between. `ret` holds the return value. The ioctls follow the ext4 rules. The GET ioctl may fail on any directory, and then the uninitialised `existing_policy` is a choice of any key or garbage. |
| `HdpSdp` | `bta_hl_sdp_register()`, `bta_hl_sdp_update()`, `bta_hl_compose_supported_feature_list()`, `bta_hl_add_sup_feature_list()`, `bta_hl_fill_sup_feature_list()`, `bta_hl_find_sink_or_src_srv_class_in_db()` | `db` is the SDP database: a sequence of records, each a handle, its attributes, its service class UUIDs and its feature list as data elements. `cfg`, `sdpHandle` and `regd` are each app's control block, and `uuids` is what `bta_sys_add_uuid()` was given. A call is one step: `\E k \in FailPoints(c)` picks the first SDP call that fails, if any. The supported-feature loop is the RECURSIVE `FeatureLoop`. `Discover` is a peer walking the records and parsing each feature list into `peerView`. The ghost `maxWritten` counts `list_elem[]` writes. |

Each `MC*` module gives TLC the constants, as model values or small sets.

## Runs

Passing runs:

| Run | Checks | What it shows |
|---|---|---|
| `decoder_main` | `TypeOK`, `RepeatTagsFollowCount`, `ByteAccounting` | Every command and event path is walked. Repeat tags number the groups 1..count. The bytes consumed plus those left always equal the declared length. |
| `resolver_all` | `ResolvesRegisteredOpcode`, `ValidationPasses` | Over all 65536 opcodes, the resolver returns exactly the registered entry, the vendor fallback entry, or NULL. No slot of the command, event or LE meta tables makes `check_hci_unit_group()` log a FAIL. So every repeat count is `INT_DEC`, every `INT_*` field fits a `uint32_t` and every `TIME_*` field fits a `uint16_t`. |
| `dump_lifecycle` | `TypeOK`, `DumpThreadServesLiveQueue`, `PacketsAccountedFor`, `PrintedInProducerOrder`, `QueuedPacketsFinish` | Two producers and two start/stop cycles. The dump thread only dequeues from the live queue. Every packet has exactly one holder. Each thread's packets are printed in the order that thread handed them over, across a restart too (the ghost variables `author` and `shown` record who made each packet and the print order). Packets of different threads can print out of timestamp order, because `display_hci_data()` takes the time before it enqueues; the code promises nothing there. A queued packet is eventually decoded or discarded by the queue free. |
| `fwlog_rotation` | `TypeOK`, `LoggingFileIsNewest`, `RemovesOnlyOldest`, `ArchiveSpec` | The syscalls succeed and the process restarts between writes. The `_curr` file is the newest, and rotation only ever deletes the oldest log. `ArchiveSpec` shows that every step of `FwLogFiles` maps to a step of `FwLogArchive` or to a stutter, so the folder as a whole behaves like a bounded archive. |
| `fwlog_failures` | `TypeOK`, `SizeBound` | Any of mkdir, opendir, rename, remove and open may fail, and the process may die inside `create_fw_log_file()`. The file being written never exceeds `MtkBtFwLogFileMaxSize`, except when it holds a single record that is larger than the maximum on its own. |
| `fwlog_lifecycle` | `TypeOK`, `QueueMatchesOwners`, `QueuedRecordsLeave` | The queue holds exactly the packets owned by it. Every record `capture_fw_log()` enqueues leaves the queue: the logger thread of the `start_up()` that made the queue writes it, or `shut_down()` frees it, also when it is enqueued after the join and across a restart. |
| `fwcfg_main` | `TypeOK`, `RunsWithCurrentLimits`, `InitReturns` | Module `MCFwLogStack`. Two Bluetooth enables, each loading the stack config through `parse_override_cfg()` while other processes edit the override files, then running `init_fw_logger()` on the result, over every C0 answer listed below. The running logger uses the limits of the config that started it, also when the second enable reads another override file than the first. Every init returns. |
| `perf_main` | `TypeOK`, `EnabledMatchesHandles`, `NoNullCall` | Covers user and eng builds, a complete, partial or missing PerfService library, and every order of the four netd calls. The enabled scenarios are exactly those netd holds a handle for, at most one at a time. No NULL function pointer is called. |
| `pulse_main` | `TypeOK`, `KeepCountIsElapsed`, `LateSkipsAtMostOne`, `DetectionsSpaced` | Buffers of 0 to `MAX_FRAMECOUNT` frames with every pattern of high samples. `keepCount` is always the number of frames since the last logged pulse. Pulses are logged at least `duration` frames apart. At most one high sample after the quiet window goes unlogged. |
| `ext4_main` | `TypeOK` | The directory starts with any policy. Other processes add and remove entries, and any syscall can fail. Every path of `e4crypt_policy_ensure()` is taken and returns 0 or -1. What it promises, that 0 means the directory has the policy asked for, is violated (`MCExt4Crypt_unencrypted.cfg` below). |
| `hdp_main` | `TypeOK`, `RecordsMatchRegistrations`, `DiscoveryReadsRegistrations` | Three apps register with four sets of parameters, and app 0's record is updated. Any SDP call can fail, and the database can be full. The database always holds exactly one complete record for each app with a handle, and no half-built or orphan record. A peer's discovery finds every such record, skips the other profile's record, resumes the walk after the record it found last, and parses back exactly the features the app registered. |

Violation runs check one property each, one that the code breaks:

| Run | Property | Defect |
|---|---|---|
| `dump_race` | `NoDeadQueueUse` | `display_hci_data()` passes its running check, then `shut_down()` frees the queue, then the enqueue writes into the freed queue. |

### Further defects

These configurations are kept beside the runs above. Each makes TLC violate the
property named:

| Configuration | Property | Defect |
|---|---|---|
| `MCHciDecoder_overread.cfg` | `NoReadPastPacket` | Set_Event_Filter reads its condition bytes without checking `left_len`. |
| `MCHciDecoder_assert.cfg` | `NoAssertAbort` | `AMP_ASSOC_fragment` (INT_HEX, back-referenced length above 4) reaches `assert(0)`. |
| `MCHciDecoder_gap.cfg` | `UnknownEventsSilent` | An event code with an empty slot below `HCI_EVENT_NUMBER` is printed with a NULL name. |
| `MCHciResolver_counts.cfg` | `SchemaCountsMatch` | The entry of opcode 0x0434 declares a parameter count that differs from its descriptor list. |
| `MCFwLogFiles_twodigit.cfg` | `RemovesOnlyOldest` | The scan reads one digit, `*(temp-1)-'0'`, so with `MaxCount` 11, file `_10_curr` reads as 0. |
| `MCFwLogFiles_header.cfg` | `HeaderRecordsFirstLength` | `first_packet_len` is `uint8_t`, so a 256-byte first record is recorded as 0. |
| `MCFwLogLifecycle_race.cfg` | `NoDeadQueueUse` | `capture_fw_log()` reads the queue pointer at line 259 and again at line 265, with `shut_down()` freeing the queue in between. |
| `MCHciDecoder_slots.cfg` | `ValueSlotsBound` | An LE Advertising Report with 5 reports needs 31 value slots; `HCI_INSTANCE.value` has `MAX_HCI_PARAM_NUM` = 30. |
| `MCHciDecoder_bt5.cfg` | `TableReadsInBounds` | LE subevent 0x0D (Bluetooth 5) indexes `LE_META_EVENTS` past its end. |
| `MCHciDecoder_keyleak.cfg` | `SecretsRedacted` | A truncated Link_Key becomes `SEQ_HEX`, so it is printed even though `HCI_HIDE_SECURITY_DATA` is TRUE. |
| `MCFwLogFiles_openfail.cfg` | `RemovesOnlyOldest` | `open()` fails after the rename, then the process restarts. The scan finds no `_curr` file and the index restarts at 1. The next rotation deletes log 1, the newest, while older logs stay. |
| `MCFwLogLifecycle_lost.cfg` | `NoPacketLost` | `shut_down()` frees the queued `fwlog_packet_t` wrappers but not their `BT_HDR` packets. |
| `MCFwLogConfig_short.cfg` (module `MCFwLogStack`, spec `ConfigOnlySpec`) | `SentMatchesConfig` | A C1 row shorter than its 4-byte header makes `C1[3] = index - 4` wrap in a `uint8_t`, and C1 is sent with 255 mostly uninitialised data bytes. A C2 row longer than 259 bytes writes past `C2_data`. |
| `MCFwLogConfig_size.cfg` (same) | `MaxSizeIsConfigured` | `(uint32_t) size_megabytes * 1024 * 1024` wraps, so `MtkBtFwLogFileMaxSize` = 4096 is stored as 0. |
| `MCPerfController_leak.cfg` | `ScenariosReclaimed` | `disable_Perf()` and `exit_little_cpu()` disable their scenario but never unregister it, so each cycle leaves one more scenario in PerfService. |
| `MCPerfController_leak.cfg` with `RpsProps = {"f"}` and `INVARIANT RpsAppliedWhileBoosted` | `RpsAppliedWhileBoosted` | `enable_Perf_RPS()` ignores a failed `EnableRPS()` write and registers the tether boost anyway, logging "tether perfservice and rps enable". Every later call then returns at the `tether_perfHandle != -1` test, so the mask is never retried while the boost is held. |
| `MCPerfController_config.cfg` | `NoParseCrash` | An odd number of tokens in `net.perf.cpu.core` makes `enable_Perf_RPS()` call `atoi(NULL)`. |
| `MCPulseDetector_missed.cfg` | `PulseNotMissed` | The quiet test reads `keepCount` as it stood at the previous high sample. So a pulse exactly `duration` frames after the last one is not logged, and the next high sample is logged instead. |
| `MCExt4Crypt_unencrypted.cfg` | `EnsuredIsEncrypted` | On a non-empty directory without a policy, the GET ioctl fails and `e4crypt_policy_get()` returns `-1`, which is true as a `bool`. `e4crypt_policy_check()` then `memcmp()`s the key with the uninitialised `existing_policy`. When the stack residue equals the key, `e4crypt_policy_ensure()` returns 0 for an unencrypted directory. The GET ioctl may fail on an encrypted directory too, and then a directory encrypted with another key is reported as having the key asked for. |
| `MCHdpSdp_stale.cfg` | `UuidsHaveRecords` | `bta_hl_sdp_update()` fails at an SDP call and deletes app 0's record. The UUIDs that `bta_hl_sdp_register()` gave `bta_sys_add_uuid()` are never removed, so the device keeps advertising an HDP service it has no record for. |
| `MCHdpSdp_overflow.cfg` | `FeatureWritesInBounds` | When `cnt` reaches `BTA_HL_NUM_SUP_FEATURE_ELEMS`, the `break` leaves only the inner loop. The next MDEP writes `list_elem[cnt]` past the end of the stack array, and `cnt` never equals the limit again. |

Each property of a passing run is paired in `PROJECT.json` with a mutant: a
plausible bug in a mapped definition that TLC shows breaks the property. Examples:
- the index wrap of `NextIndex` dropped;
- the `_curr` rename skipped;
- the scan's index off by one;
- the `remove()` of the next file left out, which breaks the refinement of `FwLogArchive`;
- the dequeue not removing the head;
- `start_up()` not registering the logger thread on the new queue;
- the C0 status callback not readying the future;
- `desiredFrames - tempCount` losing its `- tempCount`;
- `SDP_DeleteRecord()` left out of the failure path;
- `bta_hl_find_sink_or_src_srv_class_in_db()` resuming one record too far;
- the dump thread taking the newest packet first.

## Bounds and why they are enough

- **Decoder.** The packets are chosen to reach every branch of the walk:
  - commands: Write_Stored_Link_Key, with a repeat group; Set_Event_Filter; Read_Voice_Setting; Write_Remote_AMP_ASSOC; and opcode 0, which resolves to nothing;
  - events: Inquiry Complete, Command Complete, Command Status, an empty slot, LE Meta, and an out-of-range code;
  - parameter lengths {0, 1, 4, 9}, which are shorter than, equal to and longer than the schema;
  - every Set_Event_Filter condition type.

  Field contents are small sets per width, with repeat counts 0..2. A repeat count of 2 already shows whether the walk goes back to the right descriptor. The violation configurations use the one packet each defect needs, for example Num_Reports = 5 for the slot overflow.
- **Resolver.** The resolver run is exhaustive: `op` steps through all 65536 opcodes.
- **Dump and logger lifecycles.** Two producers or receivers, three packets and two start_up calls. Two producers are enough for a producer to interleave with a shut-down while another holds a packet. Two starts are enough for a stale queue from the first start to meet the second.
- **Rotation.** Sizes are in bytes, scaled down from the MB of `MtkBtFwLogFileMaxSize`:
  - `MaxSize` 16, with records of 0, 8 and 16 bytes (length bytes 1, 9 and 17, with the rounding to `FIRMWARE_LOG_BLOCK_SIZE` = 8 of line 225);
  - so a file rotates after one to three records;
  - `MaxCount` 3 is enough for the index to wrap;
  - 7 records and 2 restarts are enough for the folder to fill, wrap, and be rescanned twice.

  The failures run uses `MaxCount` 2, 4 records, 1 restart and every failure. That gives 590k states: each failure can follow each earlier step, and a restart can follow either.

- **Firmware log configuration.** `MaxInits` is 2, so a second init meets the statics of the first. `bt_stack.conf` asks the controller (`fw_control`, C1 and C2 rows, 20 MB, 5 files). The override files change it:
  - `bt_stack.conf.sqc` forces the log off;
  - `bt_stack.conf.debug` forces it on with a bare C2 header, a negative size and 3 files;
  - `bt_stack.conf.usertrial` clears `C1[4]`;
  - `/sdcard/bt_fw.conf` forces it on with a C1 row of exactly its header;
  - a 49-character path on the sdcard drops C2.

  The redirect key is absent or names `/sdcard/btsc`, whose `OverrideConf` is empty, one of the two presets or paths above, or unparsable. `MTK_STACK_CONFIG_FPATH_LEN` is 38, which refuses `usertrial` and truncates the long path; 39, which fits `/etc/bluetooth/bt_stack.conf.usertrial` and its NUL exactly; or 64. Three files on the sdcard come and go one at a time. The C0 answer is one of four: Command Complete with the enable and mask bits 1/1, 1/0 or 0/1, or a failed Command Status. The two violation configurations run `FwLogConfig` alone (`ConfigOnlySpec`) with a failed Command Complete added, and with a short C1 row and an overlong C2 row, or a size of 4096 MB.
- **PerfController.** Two builds (user and eng) and three libraries: complete, lacking `userEnable`, and missing. The model is explored exhaustively within two bounds: 6 scenario slots in PerfService (`MaxScn`) and 3 library loads (`MaxLoads`). That allows several tethering and low-power cycles before the table fills. Token counts are 0, 2, 3 and 22, which covers none, one pair, an odd count and more than `MAX_CLUSTER` pairs. `net.perf.rps` is unset or one mask, and netd passes one ack setting; each write may fail.
- **Pulse detector.** `duration` and `MAX_FRAMECOUNT` are both 1024 in the code. Both are scaled to 4, which keeps them equal. Five calls, each a buffer of 0 to 4 frames with any set of high samples or a rejected call (5 frames, format 0 or 3 channels), are enough to close the quiet window inside a buffer and across buffers, more than once.
- **ext4.** One directory (directories are independent), two keys, up to two entries and three calls. That covers an empty directory becoming non-empty between the test and the ioctl, and a second call after a first one set the policy.
- **HDP SDP.** Three apps (app 0 is the one `bta_hl_sdp_update()` touches) and four calls. `BTA_HL_NUM_SUP_FEATURE_ELEMS` is scaled from 13 to 3, so the dual-role app's three entries reach the limit. The database holds three records, one of them another profile's record. So two HDP records fit, a discovery that resumes after the first HDP record has a second one to find, and the third app meets `SDP_CreateRecord()` returning 0. Any of the SDP calls can fail. The configurations are a sink with a service name, a source that does not advertise, an advertising source whose data type has a description, and a dual-role app with all three names. The overflow configuration adds a dual-role app with three MDEPs, the smallest shape in which an MDEP follows the break.

## Fairness

- **The HCI dump and the firmware logger.** The model assumes weak fairness on:
  - the module thread's step (`DumpThread` / `LogThread`);
  - the steps of `shut_down()` after the join began;
  - a producer's enqueue once its check passed.

  These are threads of the process: the OSI reactor runs a thread whenever its queue has data, and a thread that started a statement finishes it. Nothing is assumed about when producers send or when `shut_down()` is called.
- **The decoder.** It makes no liveness claim and assumes no fairness: the walk is bounded by the packet's bytes.
- **The firmware log configuration.** It has weak fairness on `HciDeliver` and on the init thread's steps. The HCI layer passes every controller answer to the callback, and a thread blocked on a ready future wakes up. The controller is assumed to answer each command; `outstanding` models that answer.
- **The stack configuration.** `parse_override_cfg()` runs to its end (weak fairness on `OverrideStep`). Nothing is assumed about when other processes edit files.
- **PerfController, the pulse detector, ext4 and HDP SDP.** These make no liveness claims and assume no fairness. Each stops when its callers stop, which is why those runs disable deadlock checking.

## Not modelled

- **The hci_layer, PerfService library, audio format code, SDP library and bta_sys.** They are not in this repository. Each is modelled only by what it hands back: command answers, scenario handles and results, the converted samples, and SDP calls that succeed or fail, with records kept in order. In HDP, a hostile peer record is not modelled (the peer reads this device's records), and neither is the byte length of the composed feature list, whose buffer size lives in a header outside the repository.
- **Other files.**
  - In `mdroid_stack_config.c`, `config_new()` and `config_override()` belong to the osi config library, which is not in the repository. `config_override()` is modelled as replacing the config's keys with the file's keys. A file removed before its second open leaves the config as loaded. A truncated path never names an existing file.
  - The wifi HAL and `fw_logger.h` headers hold declarations only.
- **PerfController reads.** `is_op01()`, `get_load()` and `dump_cpuinfo*()` read a property or `/proc/cpuinfo` and log. They change no state and nothing in the repository calls them. `writeFile()` itself is in netd code outside the repository: the model gives each write the outcomes "written" and "failed, file unchanged", and a zero-length write (an unset `net.perf.rps`) leaves the file unchanged.
- **Firmware core dump trigger.** `hci_fw_core_dump_ctrl.c` keeps a vendor pointer and a flag that `triggerFirmwareAssert()` sets once the vendor command succeeds. Nothing in the repository calls it or sets the vendor. The flag is never cleared, by design: the chip reset that follows ends the Bluetooth process. No state sequence is left to check beyond the one assignment.
- **Pulse detector details.** `keepCount` overflows after 2^31 frames, which the bounded model does not reach. The format test `!format&AUDIO_FORMAT_PCM_16_BIT` rejects only format 0, and the model keeps that behaviour. What `memcpy_by_audio_format()` does with the formats it lets through is not modelled.
- **Formatting and timestamps.** Time strings, timestamps and the printed text are abstracted to the values and names they carry.
- **Memory.** The model assumes sequentially consistent memory.
