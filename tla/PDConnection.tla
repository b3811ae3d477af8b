---------------------------- MODULE PDConnection ----------------------------
(***************************************************************************)
(* What PDClient promises of leader_stub_ to the threads that use it: one  *)
(* connection, made to a server that PD has named its leader, and kept     *)
(* until it is dropped.  It is never turned into another one under those   *)
(* who use it.  Dropping it takes it from nobody: whoever used it is left  *)
(* with a connection that is gone.                                         *)
(***************************************************************************)
CONSTANTS
    Threads,    \* the threads that share the connection
    NoServer    \* what stands for no connection

VARIABLES
    named,  \* the servers PD has named its leader so far
    conn,   \* the server the connection is made to, or NoServer
    use,    \* the server each thread uses the connection to, or NoServer
    gone    \* the threads whose connection has been dropped since

vars == <<named, conn, use, gone>>

Unused == [t \in Threads |-> NoServer]

\* PD names more leaders as time goes on.
Name ==
    /\ named \subseteq named'
    /\ UNCHANGED <<conn, use, gone>>

\* The connection is made, where there is none.
Connect ==
    /\ conn = NoServer
    /\ conn' \in named
    /\ UNCHANGED <<named, use, gone>>

\* It is dropped; those who use it still do.
Drop ==
    /\ conn' = NoServer
    /\ gone' = {t \in Threads : use[t] # NoServer}
    /\ UNCHANGED <<named, use>>

\* A thread takes the connection as it is, or gives it up.
Take(t) ==
    /\ use' = [use EXCEPT ![t] = conn]
    /\ gone' = gone \ {t}
    /\ UNCHANGED <<named, conn>>
GiveUp(t) ==
    /\ use' = [use EXCEPT ![t] = NoServer]
    /\ gone' = gone \ {t}
    /\ UNCHANGED <<named, conn>>

Init == conn \in named \cup {NoServer} /\ use = Unused /\ gone = {}

Next ==
    \/ Name \/ Connect \/ Drop
    \/ \E t \in Threads : Take(t) \/ GiveUp(t)

Spec == Init /\ [][Next]_vars

=============================================================================
