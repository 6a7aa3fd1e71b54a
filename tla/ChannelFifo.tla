----------------------------- MODULE ChannelFifo -----------------------------
(***************************************************************************)
(* What rk_channel promises: a bounded pipe of bytes.  A step adds bytes   *)
(* at the end while the pipe is open, hands a run of bytes from the front  *)
(* to a reader, or closes the pipe.                                        *)
(***************************************************************************)
EXTENDS Naturals, Sequences, SequencesExt

CONSTANT Capacity

VARIABLES pipe,     \* the bytes written and not yet read
          chunk,    \* the bytes a read is returning
          isOpen

vars == <<pipe, chunk, isOpen>>

Init == pipe = <<>> /\ chunk = <<>> /\ isOpen = TRUE

Put == /\ isOpen
       /\ IsPrefix(pipe, pipe') /\ Len(pipe') <= Capacity
       /\ UNCHANGED <<chunk, isOpen>>

Get == /\ chunk' # <<>> /\ pipe = chunk' \o pipe'
       /\ UNCHANGED isOpen

Returned == chunk' = <<>> /\ UNCHANGED <<pipe, isOpen>>

Close == isOpen' = FALSE /\ UNCHANGED <<pipe, chunk>>

Next == Put \/ Get \/ Returned \/ Close

Spec == Init /\ [][Next]_vars
=============================================================================
