----------------------------- MODULE UsbTxClaims -----------------------------
(***************************************************************************)
(* Two comments of tx_thread_entry against UsbTx, in one history: each     *)
(* state a comment excludes is noted when it is met.  Nothing is noted     *)
(* after the second, so that the first is not refuted by what follows from *)
(* a halted transfer that goes on.                                         *)
(***************************************************************************)
EXTENDS MCUsbTx

VARIABLE refuted    \* the comments that were not true, by their line

Broken ==
    {line \in {438, 452} :
       IF line = 438 THEN ~WaitObservesCurrent ELSE ~HaltIsFinal}

ClaimsSpec ==
    /\ Init /\ refuted = {}
    /\ [][/\ Next
          /\ refuted' = IF 452 \in refuted THEN refuted
                        ELSE refuted \cup Broken']_<<vars, refuted>>

\* "so the wait below only observes the current transfer" (transport_usb.c:438)
\* and "so the armed DMA buffer can never complete late" (transport_usb.c:452-453):
\* no behaviour contradicts both.  A violation therefore refutes each of them.
OneCommentHolds == refuted # {438, 452}
==============================================================================
