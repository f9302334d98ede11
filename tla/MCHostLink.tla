----------------------------- MODULE MCHostLink -----------------------------
(* The hosts of the model-checked instance: one frame of each kind, with    *)
(* payloads that need escapes or look like them.                            *)
EXTENDS HostLink

DataFrame == [cmd |-> CMD_DATA, arg |-> <<FEND>>]
FrequencyFrame == [cmd |-> CMD_FREQUENCY, arg |-> <<TFEND, "11">>]
SyncFrame == [cmd |-> CMD_SYNC_WORD, arg |-> <<"12">>]
SelectFrame == [cmd |-> CMD_SEL_INT, arg |-> <<"01">>]

MCStreams == {<<DataFrame, FrequencyFrame>>, <<SyncFrame, SelectFrame>>}
=============================================================================
