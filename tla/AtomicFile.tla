------------------------------ MODULE AtomicFile ------------------------------
(***************************************************************************)
(* What the rollback journal of SQLite promises of one database file: its  *)
(* content changes by whole transactions, each of which starts from the    *)
(* content it is to replace, and a loss of power takes back the last of    *)
(* them at most.                                                           *)
(***************************************************************************)
CONSTANTS
    Clients,      \* connections
    Contents,
    Empty,        \* the content of a new file
    NoTransaction

VARIABLES
    content,      \* what a connection that opens the file finds
    previous,     \* what it would find had the power been lost just now
    own           \* what the transaction of a client makes of the content

vars == <<content, previous, own>>

None == [c \in Clients |-> NoTransaction]

Init == content \in Contents /\ previous = content /\ own = None

Begin(c) ==
    /\ own = None
    /\ own' = [own EXCEPT ![c] = content]
    /\ UNCHANGED <<content, previous>>

Change(c) ==
    /\ own[c] # NoTransaction
    /\ \E new \in Contents : own' = [own EXCEPT ![c] = new]
    /\ UNCHANGED <<content, previous>>

Commit(c) ==
    /\ own[c] # NoTransaction
    /\ content' = own[c]
    /\ previous' \in {content, own[c]}
    /\ own' = [own EXCEPT ![c] = NoTransaction]

(* It is rolled back, or the client dies. *)
Abandon(c) ==
    /\ own' = [own EXCEPT ![c] = NoTransaction]
    /\ UNCHANGED <<content, previous>>

(* What was committed has reached the disk. *)
Settle == previous' = content /\ UNCHANGED <<content, own>>

PowerLoss ==
    /\ content' \in {content, previous}
    /\ previous' = content'
    /\ own' = None

Remove == own = None /\ content' = Empty /\ previous' = Empty /\ UNCHANGED own

(* What happens while the power stays. *)
Transact ==
    \/ \E c \in Clients : Begin(c) \/ Change(c) \/ Commit(c) \/ Abandon(c)
    \/ Settle \/ Remove

Next == Transact \/ PowerLoss

Spec == Init /\ [][Next]_vars

(* Nothing but a transaction, which starts from what is there, or a        *)
(* removal ever takes the place of what a commit left.                     *)
PoweredSpec == Init /\ [][Transact]_vars
=============================================================================
