--------------------------------- MODULE Xof ---------------------------------
(***************************************************************************)
(* What the hash functions promise their callers: a context collects a     *)
(* message, whatever the pieces it comes in, and then hands out one fixed  *)
(* stream of bytes, whatever the pieces it is asked for.                   *)
(***************************************************************************)
EXTENDS Sponge

CONSTANT Contexts

VARIABLES
    phase,  \* "none", "absorb" or "squeeze"
    kind,   \* which function the context computes
    msg,    \* the message so far
    out     \* the output so far

vars == <<phase, kind, msg, out>>

Init ==
    /\ phase = [c \in Contexts |-> "none"]
    /\ kind = [c \in Contexts |-> "SHAKE"]
    /\ msg = [c \in Contexts |-> <<>>]
    /\ out = [c \in Contexts |-> <<>>]

(* "new" is "old" and then some. *)
Continues(new, old) == Len(new) >= Len(old) /\ SubSeq(new, 1, Len(old)) = old

(* A context begins, with nothing or - one shot - the whole message. *)
Open(c, k) ==
    /\ phase[c] = "none"
    /\ phase' = [phase EXCEPT ![c] = "absorb"]
    /\ kind' = [kind EXCEPT ![c] = k]
    /\ msg' = [msg EXCEPT ![c] = msg'[c]]
    /\ out' = [out EXCEPT ![c] = <<>>]

Absorb(c) ==
    /\ phase[c] = "absorb"
    /\ Continues(msg'[c], msg[c])
    /\ msg' = [msg EXCEPT ![c] = msg'[c]]
    /\ UNCHANGED <<phase, kind, out>>

Finalize(c) ==
    /\ phase[c] = "absorb"
    /\ phase' = [phase EXCEPT ![c] = "squeeze"]
    /\ UNCHANGED <<kind, msg, out>>

(* The next bytes of the stream, none skipped and none repeated; the last  *)
(* ones may go with the context.                                           *)
Emit(c) ==
    /\ phase[c] = "squeeze"
    /\ Continues(out'[c], out[c])
    /\ out' = [out EXCEPT ![c] = out'[c]]
    /\ \A i \in 1..Len(out'[c]) : out'[c][i] = Stream(kind[c], msg[c], i - 1)
    /\ phase' \in {phase, [phase EXCEPT ![c] = "none"]}
    /\ UNCHANGED <<kind, msg>>

(* A copy continues where its original stands. *)
Clone(c, d) ==
    /\ phase[c] = "none"
    /\ phase[d] # "none"
    /\ phase' = [phase EXCEPT ![c] = phase[d]]
    /\ kind' = [kind EXCEPT ![c] = kind[d]]
    /\ msg' = [msg EXCEPT ![c] = msg[d]]
    /\ out' = [out EXCEPT ![c] = out[d]]

Release(c) ==
    /\ phase[c] # "none"
    /\ phase' = [phase EXCEPT ![c] = "none"]
    /\ UNCHANGED <<kind, msg, out>>

Next == \E c \in Contexts :
    \/ \E k \in Kinds : Open(c, k)
    \/ Absorb(c)
    \/ Finalize(c)
    \/ Emit(c)
    \/ \E d \in Contexts : Clone(c, d)
    \/ Release(c)

Spec == Init /\ [][Next]_vars
=============================================================================
