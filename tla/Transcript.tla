----------------------------- MODULE Transcript -----------------------------
(***************************************************************************)
(* What the message chain promises the backend of each connection of a     *)
(* student.  Where nobody has interfered, what is heard from the login on  *)
(* is what the application sent, frame after frame.  Somebody on the path  *)
(* can add frames of his own without a flag (the hash has no key), but     *)
(* then no frame that was sent is heard after them, except right after the *)
(* one it was sent after.  Only interference raises a flag.  MessageChain  *)
(* shows how sequence numbers and hashes do it.                            *)
(***************************************************************************)
EXTENDS Integers, Sequences

CONSTANT Conn

VARIABLES
    sent,     \* sent[c]: the frames the application has put on connection c
    heard,    \* heard[c]: the frames taken there, while there is no flag
    spoiled,  \* the connections somebody has interfered with
    flagged   \* the connections with a flag: nothing heard there counts

vars == <<sent, heard, spoiled, flagged>>

Init ==
    /\ sent = [c \in Conn |-> <<>>]
    /\ heard = [c \in Conn |-> <<>>]
    /\ spoiled = {}
    /\ flagged = {}

End(s) == s[Len(s)]

\* The application adds a frame to what it has sent and never takes one back.
Send(c) ==
    /\ Len(sent'[c]) = Len(sent[c]) + 1
    /\ sent' = [sent EXCEPT ![c] = Append(@, End(sent'[c]))]
    /\ UNCHANGED <<heard, spoiled, flagged>>

\* The login, which only interference makes another than the one sent.
Opens(c, m) ==
    /\ heard[c] = <<>>
    /\ m.kind = "login"
    /\ c \in spoiled' \/ \E i \in 1 .. Len(sent[c]) : m = sent[c][i]

\* The frame sent right after the last one that was heard.
Follows(c, m) ==
    /\ heard[c] # <<>>
    /\ \E i \in 2 .. Len(sent[c]) : m = sent[c][i] /\ End(heard[c]) = sent[c][i - 1]

\* Another frame than those sent after the first.
Intrudes(c, m) ==
    /\ heard[c] # <<>>
    /\ c \in spoiled'
    /\ \A i \in 2 .. Len(sent[c]) : m # sent[c][i]

Hear(c) ==
    /\ c \notin flagged
    /\ Len(heard'[c]) = Len(heard[c]) + 1
    /\ heard' = [heard EXCEPT ![c] = Append(@, End(heard'[c]))]
    /\ \/ Opens(c, End(heard'[c]))
       \/ Follows(c, End(heard'[c]))
       \/ Intrudes(c, End(heard'[c]))
    /\ UNCHANGED flagged

\* A flag is deserved, and stays.
Flag ==
    /\ flagged' \in SUBSET spoiled'
    /\ flagged \subseteq flagged'
    /\ heard' = [c \in Conn |-> IF c \in flagged' THEN <<>> ELSE heard[c]]

\* Interference may come with what the backend makes of it.
Read ==
    /\ \E S \in SUBSET Conn : spoiled' = spoiled \cup S
    /\ Flag \/ \E c \in Conn : Hear(c)
    /\ UNCHANGED sent

Next == Read \/ \E c \in Conn : Send(c)

Spec == Init /\ [][Next]_vars
=============================================================================
