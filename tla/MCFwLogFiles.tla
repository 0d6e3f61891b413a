---------------------------- MODULE MCFwLogFiles ----------------------------
(***************************************************************************)
(* Model values for FwLogFiles.  Sizes are scaled down from megabytes to a *)
(* few 8-byte blocks: the handler only compares fw_log_curr_size +         *)
(* log_record_len with s_log_max_size, so a file of two blocks rotates as  *)
(* a file of 20 MB does, after far fewer records.                          *)
(***************************************************************************)
EXTENDS FwLogFiles

\* Length bytes 1, 9, 17: records of 0, 8 and 16 bytes.
MCLengthBytes == {1, 9, 17}
\* Records of 8, 16 and 24 bytes, the last longer than a whole file.
MCOversizeLengthBytes == {9, 17, 25}
\* One record of 8 bytes per file: every event after the first rotates.
MCOneBlock == {9}
\* data[1] = 255: data_len 254, rounded up to 256 bytes.
MCLongestLengthByte == {255}

MCNoFailures == {"mkdir"}
MCAllFailures == {"mkdir", "opendir", "rename", "remove", "open"}
MCOpenFails == {"open"}
=============================================================================
