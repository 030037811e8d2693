------------------------------- MODULE GoConn -------------------------------
(***************************************************************************)
(* The Go client (xbot_service_interface_go/xbot, conn.go and the find()   *)
(* of discovery.go) composed with the service it talks to: connections     *)
(* that are dialled, claim, call, send calls without waiting, and are      *)
(* closed.  A connection is a socket of its own, is dialled once, and      *)
(* reads its socket only in claim() and in Call(); what arrives between    *)
(* two calls waits there for the next one.                                 *)
(*                                                                         *)
(* Packets are delayed at will, and so lost as well.  The other hosts of   *)
(* module Service go on claiming and calling as they like.                 *)
(***************************************************************************)
EXTENDS Service, Sequences

CONSTANTS
  Conns,      \* the connections, by their endpoints
  IdSpan,     \* call ids count modulo this (2^16 in the code)
  MaxSent,    \* bound: calls a connection sends
  MaxLosses   \* bound: claims and acknowledgements lost

ASSUME GoConnAssumption ==
  /\ Conns \subseteq Hosts
  /\ IdSpan \in Nat \ {0} /\ 0..(IdSpan - 1) \subseteq CallIds
  /\ MaxSent \in Nat /\ MaxLosses \in Nat

VARIABLES
  conn,       \* of each connection: "new", "find", "claim", "open" or "closed"
  callID,     \* the counter of its calls
  waiting,    \* the call that Call() waits for, or 0
  claims,     \* in the network: CLAIMs of connections,
  acks,       \* ... their acknowledgements,
  requests,   \* ... calls,
  responses,  \* ... and their responses
  losses,
  handled,    \* ghost: where the calls the service has handled came from
  result      \* ghost: what Call() returned in this step

conn_vars == <<conn, callID, waiting>>
network == <<claims, acks, requests, responses, losses>>
go_vars == <<vars, conn_vars, network, handled, result>>

NoResult == [type |-> "none"]

\* A call with its sender and its number there; an outsider's has number 0.
Origin(c, n, id) == [conn |-> c, n |-> n, id |-> id]

Own(c, n) == Origin(c, n, n % IdSpan)

GoInit ==
  /\ Init
  /\ conn = [c \in Conns |-> "new"]
  /\ callID = [c \in Conns |-> 0] /\ waiting = [c \in Conns |-> 0]
  /\ claims = {} /\ acks = {} /\ requests = {} /\ responses = {} /\ losses = 0
  /\ handled = <<>>
  /\ result = NoResult

----------------------------------------------------------------------------
(* Dial.                                                                   *)

\* Options.Endpoint skips discovery, and the claim with it.
Dial(c) ==
  /\ conn[c] = "new"
  /\ conn' = [conn EXCEPT ![c] = "find"] \/ conn' = [conn EXCEPT ![c] = "open"]
  /\ result' = NoResult
  /\ UNCHANGED <<callID, waiting, network>>

\* An advertisement reaches some of those that look for it; the service may
\* have another type or version (checkAdvertisement), and Options.NoClaim be set.
find(C) ==
  /\ \E next \in [C -> {"closed", "open", "claim"}] :
       conn' = [c \in Conns |-> IF c \in C THEN next[c] ELSE conn[c]]
  /\ UNCHANGED <<callID, waiting, network>>

\* A second has passed, or something other than the acknowledgement was read.
SendClaim(c) ==
  /\ conn[c] = "claim" /\ c \notin claims
  /\ claims' = claims \cup {c}
  /\ result' = NoResult
  /\ UNCHANGED <<conn_vars, acks, requests, responses, losses>>

ReceiveClaimAck(c) ==
  /\ conn[c] = "claim" /\ c \in acks
  /\ acks' = acks \ {c}
  /\ conn' = [conn EXCEPT ![c] = "open"]
  /\ result' = NoResult
  /\ UNCHANGED <<callID, waiting, claims, requests, responses, losses>>

\* The context ends, or the connection is closed, whatever is on its way.
Close(c) ==
  /\ conn[c] \in {"find", "claim", "open"}
  /\ conn' = [conn EXCEPT ![c] = "closed"]
  /\ waiting' = [waiting EXCEPT ![c] = 0]
  /\ result' = NoResult
  /\ UNCHANGED <<callID, network>>

LosePacket ==
  /\ losses < MaxLosses /\ losses' = losses + 1
  /\ \E c \in Conns :
       \/ c \in claims /\ claims' = claims \ {c} /\ UNCHANGED acks
       \/ c \in acks /\ acks' = acks \ {c} /\ UNCHANGED claims
  /\ result' = NoResult
  /\ UNCHANGED <<conn_vars, requests, responses>>

----------------------------------------------------------------------------
(* Calls.                                                                  *)

\* SendRPC takes no lock and does not wait.
startCall(c) ==
  /\ conn[c] = "open" /\ callID[c] < MaxSent
  /\ callID' = [callID EXCEPT ![c] = @ + 1]
  /\ requests' = requests \cup {Own(c, callID'[c])}
  /\ result' = NoResult
  /\ UNCHANGED <<conn, claims, acks, responses, losses>>

SendRPC(c) == startCall(c) /\ UNCHANGED waiting

\* callMu lets one Call in at a time.
Call(c) ==
  /\ waiting[c] = 0
  /\ startCall(c)
  /\ waiting' = [waiting EXCEPT ![c] = callID'[c]]

\* Faulty variant: takes the next response for its own.
IsAnyResponse(c, r) == TRUE

IsResponse(c, r) == r.id = waiting[c] % IdSpan

\* Call reads the next packet of the socket and ignores what it does not wait for.
Receive(c, r) ==
  /\ waiting[c] # 0
  /\ r \in responses /\ r.to = c
  /\ responses' = responses \ {r}
  /\ IF IsResponse(c, r)
       THEN /\ waiting' = [waiting EXCEPT ![c] = 0]
            /\ result' = [type |-> r.type, own |-> Own(c, waiting[c]), of |-> r.of]
       ELSE result' = NoResult /\ UNCHANGED waiting
  /\ UNCHANGED <<conn, callID, claims, acks, requests, losses>>

\* The deadline passes or the context ends.
TimeOut(c) ==
  /\ waiting[c] # 0
  /\ waiting' = [waiting EXCEPT ![c] = 0]
  /\ result' = NoResult
  /\ UNCHANGED <<conn, callID, network>>

ConnStep(c) ==
  \/ Dial(c) \/ SendClaim(c) \/ ReceiveClaimAck(c) \/ Close(c)
  \/ SendRPC(c) \/ Call(c) \/ TimeOut(c)
  \/ \E r \in responses : Receive(c, r)

----------------------------------------------------------------------------
(* The service, and what its packets do at the connections.                *)

\* Who gets the packet this step sends, if it is a connection.
SentTo(c) == out'.ip = c /\ out'.port = c

\* A response carries the id of the call its sender was dispatched for.
Transmit ==
  /\ responses' =
       IF out'.type \in {"RPC_RESPONSE", "RPC_BUSY"}
         THEN responses \cup
                {[to |-> c, type |-> out'.type, id |-> handled'[out'.from].id,
                  of |-> handled'[out'.from]] : c \in {d \in Conns : SentTo(d)}}
         ELSE responses
  /\ acks' = IF out'.type = "CLAIM_ACK" THEN acks \cup {c \in Conns : SentTo(c)} ELSE acks
  /\ result' = NoResult

\* A step of the service that takes nothing from a connection.
ServiceStep ==
  /\ \/ ProcessingStep
     \/ \E h \in Hosts \ Conns : ReceiveClaim([host |-> h])
     \/ \E message \in ConfigMessage : ReceiveConfiguration(message)
     \/ heartbeat \/ SendConfigurationRequest \/ OnServiceDiscoveryTimeout
     \/ \E w \in workers : WorkerStep(w)
     \/ Sender
  /\ UNCHANGED <<conn_vars, claims, requests, losses, handled>>
  /\ Transmit

Advertise ==
  /\ AdvertiseService
  /\ \E C \in SUBSET {c \in Conns : conn[c] = "find"} : find(C)
  /\ result' = NoResult
  /\ UNCHANGED handled

HandleClaim(c) ==
  /\ c \in claims
  /\ ReceiveClaim([host |-> c])
  /\ claims' = claims \ {c}
  /\ UNCHANGED <<conn_vars, requests, losses, handled>>
  /\ Transmit

HandleCall ==
  /\ \E q \in requests \cup {Origin(NoAddr, 0, id) : id \in CallIds} :
       /\ HandleRpcCall(q.id)
       /\ handled' = Append(handled, q)
       /\ requests' = requests \ {q}
  /\ Transmit
  /\ UNCHANGED <<conn_vars, claims, losses>>

GoNext ==
  \/ ServiceStep \/ Advertise \/ HandleCall
  \/ \E c \in Conns : HandleClaim(c)
  \/ LosePacket /\ UNCHANGED <<vars, handled>>
  \/ \E c \in Conns : ConnStep(c) /\ UNCHANGED <<vars, handled>>

GoSpec == GoInit /\ [][GoNext]_go_vars

\* Threads are scheduled: the processing thread finishes its handler, workers
\* their calls.  claim() repeats its packet and reads what arrives, and the
\* service's loop gets to a CLAIM in its queue.  Nothing else need come.
GoFairness ==
  /\ WF_go_vars(ProcessingStep /\ ServiceStep)
  /\ WF_go_vars((\E w \in workers : WorkerStep(w)) /\ ServiceStep)
  /\ \A c \in Conns :
       /\ WF_go_vars(SendClaim(c) /\ UNCHANGED <<vars, handled>>)
       /\ WF_go_vars(ReceiveClaimAck(c) /\ UNCHANGED <<vars, handled>>)
       /\ SF_go_vars(HandleClaim(c))

GoFairSpec == GoSpec /\ GoFairness

----------------------------------------------------------------------------
(***************************************************************************)
(* What Call() returns - the value, or ErrBusy, after which "retrying      *)
(* later is reasonable" (errors.go:15) - is the response to that very      *)
(* call: not to one that timed out before, one sent by SendRPC, or one of  *)
(* another client.  Ids tell them apart, and the exception is an id the    *)
(* service was given twice: by a counter that wrapped, or by a client      *)
(* without claim (Options.NoClaim), whose responses the owner gets.        *)
(***************************************************************************)
OutcomeIsOwn ==
  result # NoResult =>
    \/ result.of = result.own
    \/ \E i \in DOMAIN handled : handled[i].id = result.own.id /\ handled[i] # result.own

(***************************************************************************)
(* Dial() gets its claim through, whatever else the service is doing and   *)
(* whoever else claims it, unless it is given up.                          *)
(***************************************************************************)
DialCompletes ==
  \A c \in Conns : conn[c] = "claim" ~> conn[c] \in {"open", "closed"}
=============================================================================
