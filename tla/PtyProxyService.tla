-------------------------- MODULE PtyProxyService --------------------------
(***************************************************************************)
(* The helper protocol implements the service: the refinement mapping from *)
(* PtyProxy to PtyService.                                                 *)
(***************************************************************************)
EXTENDS PtyProxy

(* The kernel names no terminal like none.                                 *)
ASSUME LineAssumption == Nil \notin Lines

(* The types of the commands of client c in a queue, in their order.       *)
CommandTypes(queue, c) ==
  LET types[n \in 0..Len(queue)] ==
        IF n = 0                    THEN <<>>
        ELSE IF queue[n].from = c   THEN Append(types[n - 1], queue[n].type)
        ELSE types[n - 1]
  IN  types[Len(queue)]

(* A client's unperformed requests: its commands on the socket, and the    *)
(* call whose command it has not written yet.                              *)
Unwritten(c) == IF pc[c] \in {"need", "write"} THEN <<op[c]>> ELSE <<>>

pendingBar == [c \in Clients |-> CommandTypes(toSrv, c) \o Unwritten(c)]

haveBar ==
  [c \in Clients |->
     IF \E a \in ptys : obj[a].owner = c
     THEN obj[CHOOSE a \in ptys : obj[a].owner = c].line
     ELSE Nil]

toldBar ==
  [c \in Clients |->
     IF res[c] = "ok" /\ pc[c] # "gone" THEN pty[c][2] ELSE Nil]

Service == INSTANCE PtyService
             WITH pending  <- pendingBar,
                  have     <- haveBar,
                  told     <- toldBar,
                  sessions <- utmp,
                  gone     <- {c \in Clients : pc[c] = "gone"},
                  places   <- Lines

(* Seen through the mapping, every step of clients and helper is a step of *)
(* the service: requests take effect once, in order, on the issuer's pty,  *)
(* what get answers is the pty the service keeps for the caller, and every *)
(* request is performed in the end.                                        *)
ImplementsService == Service!FairSpec

=============================================================================
