--------------------------- MODULE CallManagerInv ---------------------------
(***************************************************************************)
(* Why CallManager keeps its promises: the inductive invariant IInv behind *)
(* its safety properties, in parts named for what they are about.          *)
(* CallManagerProofs proves each part from the ones before it, and TLC     *)
(* checks all of them on small instances.                                  *)
(***************************************************************************)
EXTENDS CallManager

\* How a call's dict, its leg and its worker go together: a call is born with
\* the request or the dial() that gives it the line, its kind says how it can
\* come up, and it has a session exactly while its dict says "connected".
DictInv ==
    /\ call # NoCall => status[call] # "unborn"
    /\ \A c \in Calls : leg[c] = "idle" => status[c] = "unborn"
    /\ \A c \in Inbound : status[c] # "dialing"
    /\ \A c \in Outbound :
         /\ status[c] # "ringing"
         /\ worker[c] = "none" <=> leg[c] = "idle"
         /\ leg[c] = "idle" <=> status[c] = "unborn"
    /\ voiced = {c \in Calls : status[c] = "connected"}

\* What a thread that took a call off the line knows of it: it is not the call
\* on the line, and its status is the one it was taken with. A timer's thread
\* has nothing to do before its timer fires.
ThreadInv ==
    \A t \in Threads :
        /\ pc[t] \in {"drop", "say"} =>
             held[t] \in Calls /\ held[t] # call /\ status[held[t]] # "unborn"
        /\ pc[t] \in {"send", "record", "arm"} =>
             held[t] \in Inbound /\ status[held[t]] = "connected"
        /\ pc[t] = "refuse" =>
             held[t] \in Inbound /\ held[t] # call /\ status[held[t]] = "ringing"
        /\ t \in Calls /\ timer[t] # "fired" => pc[t] = "idle"

\* The RTP port between the workers that have it before their call is up and
\* the call that is up.
Setting == {"record", "invite", "wait", "resend", "settle", "cancel", "clean"}
PortInv ==
    /\ \A c \in Outbound :
         /\ worker[c] = "bind" => status[c] = "dialing"
         /\ worker[c] \in Setting => status[c] = "dialing" /\ port = c
         /\ status[c] = "connected" => worker[c] \in {"arm", "connected"}
    /\ ConnectedHasAudio
    /\ port \in Inbound => status[port] = "connected"

\* Who may still give an inbound call its verdict: the line while the call
\* rings, or one thread that took it; once given, nobody.
Deciding(t) ==
    \/ pc[t] \in {"send", "refuse"}
    \/ pc[t] \in {"drop", "say"} /\ status[held[t]] = "ringing"
VerdictInv ==
    /\ \A c \in Inbound :
         status[c] = "unborn" \/ (call = c /\ status[c] = "ringing") => Verdicts(sent[c]) = {}
    /\ \A t \in Threads : Deciding(t) => Verdicts(sent[held[t]]) = {}
    /\ \A t, u \in Threads :
         Deciding(t) /\ Deciding(u) /\ held[t] = held[u] => t = u

\* What is sent for an outbound call is sent after dial(), and what its worker
\* reads is what the gateway gave it.
SilentInv == \A c \in Outbound : status[c] = "unborn" => sent[c] = {}
QueueInv ==
    \A c \in Outbound : \A i \in 1..Len(inbox[c]) : inbox[c][i] \in replied[c]

\* Every INVITE after the first answers a challenge to the one before.
Challenged(c, n) == [code |-> "401", cseq |-> n, method |-> "INVITE"] \in replied[c]
ChallengeInv == \A c \in Outbound : cseq[c] > 1 => Challenged(c, cseq[c] - 1)

\* A call whose attempt was cancelled is off the line, or its worker reads no
\* more: the 200 that answers the CANCEL cannot be taken for an answer by a
\* worker whose call is on the line.
CancelInv ==
    \A c \in Outbound :
        /\ \A r \in replied[c] : r.method = "CANCEL" => <<"CANCEL", r.cseq>> \in sent[c]
        /\ call = c /\ (\E n \in 1..MaxCseq : <<"CANCEL", n>> \in sent[c]) =>
             worker[c] \in {"clean", "release"}

\* So what comes up on the line was answered by the gateway and acknowledged.
Dialog(c) == \E n \in 1..MaxCseq :
    /\ [code |-> "200", cseq |-> n, method |-> "INVITE"] \in replied[c]
    /\ <<"ACK", n>> \in sent[c]
DialogInv ==
    \A c \in Outbound :
        /\ call = c /\ worker[c] = "settle" => Dialog(c)
        /\ status[c] = "connected" => Dialog(c)

IInv ==
    /\ TypeOK /\ DictInv /\ ThreadInv
    /\ PortInv /\ InboundPortIsOwned
    /\ VerdictInv /\ OneVerdict
    /\ SilentInv /\ QueueInv /\ ChallengeInv /\ CancelInv /\ DialogInv
    /\ RetryOnlyAfterChallenge /\ ByeNamesADialog
=============================================================================
