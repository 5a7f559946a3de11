------------------------------ MODULE StreamGap ------------------------------
(***************************************************************************)
(* LiveStream, and what the page holds over all its connections: what it   *)
(* loaded, what its streams sent, and the tail it fetches after a reopen.  *)
(***************************************************************************)
EXTENDS LiveStream

VARIABLES
    held,      \* the seqs the page holds
    tailFrom,  \* the seq from which a tail fetch is due
    sentInGap  \* events pushed since the page lost its first stream, until it reopened one

holdVars == <<held, tailFrom, sentInGap>>

NoFetch == -1

GapInit ==
    /\ LiveInit
    /\ held = [v \in Viewers |-> {}] /\ sentInGap = [v \in Viewers |-> {}]
    /\ tailFrom = [v \in Viewers |-> NoFetch]

(* The page's first load is of the whole log. *)
HoldLog(v) ==
    /\ Load(v) /\ held' = [held EXCEPT ![v] = log]
    /\ UNCHANGED <<tailFrom, sentInGap>>

(* When its stream opens again the page also asks for                       *)
(* GET /sessions/{id}?since_seq=, from the highest seq it holds then.       *)
Open(v) ==
    /\ Connect(v)
    /\ tailFrom' = [tailFrom EXCEPT ![v] = IF connects[v] > 0 THEN Top(held[v]) ELSE NoFetch]
    /\ UNCHANGED <<held, sentInGap>>

FetchTail(v) ==
    /\ tailFrom[v] # NoFetch
    /\ held' = [held EXCEPT ![v] = @ \cup {n \in log : n > tailFrom[v]}]
    /\ tailFrom' = [tailFrom EXCEPT ![v] = NoFetch]
    /\ UNCHANGED <<liveVars, sentInGap>>

(* What a stream sends is added to what the page holds. *)
Receive(v) ==
    /\ NotFound(v) \/ Serve(v) \/ Disconnect(v)
    /\ held' = [held EXCEPT ![v] = @ \cup Entries(got'[v])]
    /\ UNCHANGED <<tailFrom, sentInGap>>

InGap(v) == vpc[v] = "off" /\ connects[v] > 0 /\ ~leaving[v]

(* The session goes on, with or without the page. *)
Meanwhile ==
    /\ \/ /\ \/ \E r \in Emitters : Emit(r)
             \/ \E e \in Enders : End(e)
             \/ \E c \in Calls : Cancel(c)
          /\ UNCHANGED <<streamVars, pageVars>>
       \/ LiveCrash
    /\ sentInGap' = [v \in Viewers |->
         IF InGap(v) THEN sentInGap[v] \cup (Entries(buffer') \ Entries(buffer)) ELSE sentInGap[v]]
    /\ UNCHANGED <<held, tailFrom>>

GapNext ==
    \/ \E v \in Viewers : HoldLog(v) \/ Open(v) \/ FetchTail(v) \/ Receive(v)
    \/ Meanwhile

GapSpec == GapInit /\ [][GapNext]_<<liveVars, holdVars>>

-----------------------------------------------------------------------------
(* SessionClient.tsx: after each reopen the tail is fetched so nothing sent *)
(* during the gap is lost.  So a page that has reopened its stream, fetched *)
(* its tail and read its channel holds every event that was sent between.   *)
NothingLostInTheGap ==
    \A v \in Viewers :
        (/\ connects[v] > 1 /\ tailFrom[v] = NoFetch
         /\ vpc[v] = "stream" /\ status = "live" /\ queue[v] = <<>>) =>
            sentInGap[v] \subseteq held[v]
=============================================================================
