----------------------------- MODULE LinkRestore -----------------------------
(***************************************************************************)
(* Restores of several processes that put symbolic links into one          *)
(* directory. The writer lock keeps restores of one repository apart, not  *)
(* those of different repositories. A temporary link gets a name that was  *)
(* free when it was looked for, from a counter every process starts at     *)
(* zero, and a guard removes whatever stands at that name in the end.      *)
(*                                                                         *)
(* RestoreEngine has the other steps of restore(); there a temporary has   *)
(* no name.                                                                *)
(***************************************************************************)
EXTENDS Integers

CONSTANTS
    Process,
    Destination,    \* paths of links
    LinksPer,       \* links each process restores
    MaxAttempts,    \* names unique_temporary_path tries
    Nobody

\* A process takes a new number for every name it tries.
Number == 0..(LinksPer * MaxAttempts)

VARIABLES
    temporary,   \* number -> whose target the link at that temporary name has
    link,        \* destination -> whose target the link there has
    process,     \* local state
    publisher    \* history: destination -> the process that renamed to it last

vars == <<temporary, link, process, publisher>>

Init ==
    /\ temporary = [n \in Number |-> Nobody]
    /\ link = [d \in Destination |-> Nobody] /\ publisher = link
    /\ process \in [Process -> {[pc |-> "choose", sequence |-> 0, attempt |-> 0, name |-> 0,
                                 failing |-> FALSE, left |-> LinksPer, replace |-> replace] :
                                  replace \in BOOLEAN}]

At(p, label) == process[p].pc = label
Goes(p, label) == process' = [process EXCEPT ![p].pc = label]
Fails(p) == process' = [process EXCEPT ![p].pc = "guard", ![p].failing = TRUE]
LocalStep == UNCHANGED <<temporary, link, publisher>>

\* unique_temporary_path: the counter, then a look; too many names taken is an error.
ChooseName(p) ==
    /\ At(p, "choose")
    /\ LET n == process[p].sequence
           tried == [process[p] EXCEPT !.sequence = n + 1, !.name = n]
       IN process' = [process EXCEPT ![p] =
            IF temporary[n] = Nobody THEN [tried EXCEPT !.pc = "create", !.attempt = 0]
            ELSE IF tried.attempt + 1 = MaxAttempts THEN [tried EXCEPT !.pc = "failed"]
            ELSE [tried EXCEPT !.attempt = @ + 1]]
    /\ LocalStep

\* create_restored_symlink; the guard is there already.
CreateLink(p) ==
    /\ At(p, "create")
    /\ IF temporary[process[p].name] = Nobody
         THEN /\ temporary' = [temporary EXCEPT ![process[p].name] = p]
              /\ Goes(p, "publish")
         ELSE Fails(p) /\ UNCHANGED temporary
    /\ UNCHANGED <<link, publisher>>

\* publish_restored_path: rename by name, over the destination or only if it is
\* free; then the directory is flushed.
PublishLink(p) ==
    /\ At(p, "publish")
    /\ LET n == process[p].name
       IN IF temporary[n] = Nobody
            THEN Fails(p) /\ UNCHANGED <<temporary, link, publisher>>
            ELSE \E d \in Destination :
                   /\ IF process[p].replace \/ link[d] = Nobody
                        THEN /\ link' = [link EXCEPT ![d] = temporary[n]]
                             /\ publisher' = [publisher EXCEPT ![d] = p]
                             /\ temporary' = [temporary EXCEPT ![n] = Nobody]
                        ELSE UNCHANGED <<temporary, link, publisher>>
                   /\ Goes(p, "guard")

\* ~TemporaryPath: removal by name, of the link or of nothing; then the next
\* link, the result or the exception.
RemoveName(p) ==
    /\ At(p, "guard")
    /\ temporary' = [temporary EXCEPT ![process[p].name] = Nobody]
    /\ process' = [process EXCEPT ![p].left = @ - 1,
                     ![p].pc = IF process[p].failing THEN "failed"
                               ELSE IF process[p].left = 1 THEN "returned" ELSE "choose"]
    /\ UNCHANGED <<link, publisher>>

Step(p) == ChooseName(p) \/ CreateLink(p) \/ PublishLink(p) \/ RemoveName(p)

Next == \E p \in Process : Step(p)

Spec == Init /\ [][Next]_vars

-----------------------------------------------------------------------------
(* Properties *)

\* A restored link has the target its entry was saved with, not that of a link
\* another restore was just making at the same temporary name
\* (unique_temporary_path, publish_restored_path).
LinkHasSavedTarget == link = publisher

=============================================================================
