----------------------------- MODULE MCServices -----------------------------
(* The four services a request may pass through, for TLC: the connection   *)
(* pool, speech recognition, cloud accounts and the language model share   *)
(* no state, so one of them is in focus in each behaviour and the others   *)
(* rest in one initial state.                                              *)
EXTENDS ConnectionPool, Transcription, CloudAccounts, Assistant

VARIABLE focus

On(service) == focus = service /\ UNCHANGED focus
PoolOnly == On("pool") /\ UNCHANGED <<serviceVars, cloudVars, askVars>>
RecognitionOnly == On("recognition") /\ UNCHANGED <<vars, cloudVars, askVars>>
NetdiskOnly == On("netdisk") /\ UNCHANGED <<vars, serviceVars, askVars>>
AssistantOnly == On("assistant") /\ UNCHANGED <<vars, serviceVars, cloudVars>>

MCInit ==
    /\ focus \in {"pool", "recognition", "netdisk", "assistant"}
    /\ Init /\ AsrInit /\ CloudInit /\ AskInit
    /\ focus # "pool" => idle = CHOOSE s \in SUBSET Connections : Cardinality(s) = MinSize
    /\ focus # "assistant" => kind = "llm" /\ ~authEnabled /\ env = Unset

MCNext ==
    \/ PoolOnly /\ Next
    \/ RecognitionOnly /\ ServiceNext
    \/ NetdiskOnly /\ CloudNext
    \/ AssistantOnly /\ AskNext

MCSpec == MCInit /\ [][MCNext]_<<focus, vars, serviceVars, cloudVars, askVars>>

\* the fairness of ConnectionPool
MCFairSpec == MCSpec /\ \A t \in Threads : WF_vars(Progress(t))
=============================================================================
