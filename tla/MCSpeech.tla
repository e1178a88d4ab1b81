------------------------------ MODULE MCSpeech ------------------------------
(***************************************************************************)
(* Instances of SpeechStream and of InterimTranslation for TLC.  Their     *)
(* variables are disjoint, and a behaviour is one of either: the other one *)
(* stays in its initial state, in which no action under fairness is        *)
(* enabled.  The streams are explored with every provider fault for one    *)
(* connection, and with a resume when the browser is all that fails.       *)
(***************************************************************************)
EXTENDS SpeechStream, InterimTranslation

VARIABLE part    \* "provider fails", "browser leaves" or "captions"

allVars == <<vars, interimVars, part>>

AnyFault == FaultKinds

MCInit == Init /\ InterimInit /\ part \in {"provider fails", "browser leaves", "captions"}

\* No provider fault; the resume finds the audio of the first stream sent.
BrowserFaultsOnly ==
    \A k \in Streams : /\ upstream'[k] # "lost"
                       /\ reader'[k] # "breaking"
                       /\ reader[k] \in {"connect", "update"} => reader'[k] # "failed"
                       /\ conn' # conn => queue[k] = 0

MCNext ==
    /\ UNCHANGED part
    /\ \/ part = "provider fails" /\ Next /\ conn' = 1 /\ UNCHANGED interimVars
       \/ part = "browser leaves" /\ Next /\ BrowserFaultsOnly /\ UNCHANGED interimVars
       \/ part = "captions" /\ InterimNext /\ UNCHANGED vars

MCSpec == MCInit /\ [][MCNext]_allVars /\ Fairness /\ InterimFairness
=============================================================================
