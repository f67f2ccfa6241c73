------------------------------- MODULE Arena -------------------------------
(***************************************************************************)
(* What the handle registry promises, without vectors or pointers: handles *)
(* are handed out into an open arena, and closing an arena ends every      *)
(* handle it owns at once and no other.  A handle is never released on its *)
(* own and never changes arena.  Registry and Bridge refine this           *)
(* specification with the arenas their contexts and the handles their      *)
(* m_value wrappers.                                                       *)
(***************************************************************************)
CONSTANTS
  Arenas,   \* the arenas (contexts, the internal one included)
  Handles,  \* the handles that can be handed out
  NoArena   \* the owner of a handle not handed out

VARIABLES
  arena,    \* per arena: "unused", "live" (open) or "freed" (closed)
  handle,   \* per handle: "unused", "live" or "freed"
  owner     \* per handle: the arena it was handed out into, or NoArena

arenaVars == <<arena, handle, owner>>

ArenaInit ==
  /\ arena = [a \in Arenas |-> "unused"]
  /\ handle = [h \in Handles |-> "unused"]
  /\ owner = [h \in Handles |-> NoArena]

Open(a) ==
  /\ arena[a] = "unused"
  /\ arena' = [arena EXCEPT ![a] = "live"]
  /\ UNCHANGED <<handle, owner>>

\* One operation hands out the handles in S, all owned by a.
Alloc(S, a) ==
  /\ arena[a] = "live"
  /\ S # {}
  /\ \A h \in S : handle[h] = "unused"
  /\ handle' = [h \in Handles |-> IF h \in S THEN "live" ELSE handle[h]]
  /\ owner' = [h \in Handles |-> IF h \in S THEN a ELSE owner[h]]
  /\ UNCHANGED arena

Close(a) ==
  /\ arena[a] = "live"
  /\ arena' = [arena EXCEPT ![a] = "freed"]
  /\ handle' = [h \in Handles |->
                  IF handle[h] = "live" /\ owner[h] = a THEN "freed" ELSE handle[h]]
  /\ UNCHANGED owner

ArenaNext ==
  \/ \E a \in Arenas : Open(a) \/ Close(a)
  \/ \E a \in Arenas, S \in SUBSET Handles : Alloc(S, a)

ArenaSpec == ArenaInit /\ [][ArenaNext]_arenaVars

=============================================================================
