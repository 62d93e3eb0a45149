----------------------------- MODULE Territory ------------------------------
(***************************************************************************)
(* What the game promises about land, with no caravans, locks or restarts: *)
(* a tile is claimed once, by one actor, next to land of the claimer's     *)
(* group or as the camp of a newcomer; land is never taken over; it is     *)
(* given up only by a player who leaves the season, all of it at once, and *)
(* never by a member of a clan.                                            *)
(*                                                                         *)
(* A group is a clan with everybody on its roll.  The roll may name players*)
(* who are no members any more, or not yet; the land of such a group may   *)
(* be given up under its feet, and then it may claim elsewhere, as may a   *)
(* player whose settling or leaving was cut short.                         *)
(***************************************************************************)
EXTENDS Integers

CONSTANTS Players, Clans, Tiles, CampTiles, None

VARIABLES
  owner,   \* per tile: who has claimed it
  member,  \* per player: its clan
  roll,    \* per clan: the players on its roll
  cut      \* players whose settling or leaving was cut short

terrVars == <<owner, member, roll, cut>>

Distance(m, n) == IF m < n THEN n - m ELSE m - n
Next8(s, t) == s # t /\ Distance(s[1], t[1]) <= 1 /\ Distance(s[2], t[2]) <= 1

GroupClan(a) == IF a \in Clans THEN a ELSE member[a]
Allied(a, b) == IF GroupClan(a) = None THEN b = a
                ELSE b = GroupClan(a) \/ b \in roll[GroupClan(a)]
Land(a) == {t \in Tiles : Allied(a, owner[t])}

\* Everybody on the roll is a member, and nothing was cut short.
Firm(a) == /\ a \notin cut
           /\ GroupClan(a) # None => \A p \in roll[GroupClan(a)] : member[p] = GroupClan(a)

TInit == /\ owner = [t \in Tiles |-> None]
         /\ member \in [Players -> Clans \cup {None}]
         /\ roll \in [Clans -> SUBSET Players]
         /\ \A p \in Players : member[p] # None => p \in roll[member[p]]
         /\ cut = {}

\* A newcomer brings no membership: its name stays on the roll.
Settle(p, t) ==
  /\ t \in CampTiles /\ owner[t] = None
  /\ \A s \in Tiles : owner[s] # p
  /\ member' = [member EXCEPT ![p] = None]
  /\ \/ owner' = [owner EXCEPT ![t] = p] /\ UNCHANGED cut
     \/ cut' = cut \cup {p} /\ UNCHANGED owner
  /\ UNCHANGED roll

Claim(a, t) ==
  /\ owner[t] = None
  /\ Firm(a) => \E s \in Land(a) : Next8(s, t)
  /\ owner' = [owner EXCEPT ![t] = a]
  /\ UNCHANGED <<member, roll, cut>>

Leave(p) ==
  /\ member[p] = None
  /\ owner' = [t \in Tiles |-> IF owner[t] = p THEN None ELSE owner[t]]
  /\ cut' \in {cut, cut \cup {p}}
  /\ UNCHANGED <<member, roll>>

Enrol(p, c) ==
  /\ member[p] = None
  /\ p \notin roll[c]
  /\ roll' = [roll EXCEPT ![c] = @ \cup {p}]
  /\ member' \in {member, [member EXCEPT ![p] = c]}
  /\ UNCHANGED <<owner, cut>>

TNext == \/ \E p \in Players, t \in Tiles : Settle(p, t)
         \/ \E a \in Players \cup Clans, t \in Tiles : Claim(a, t)
         \/ \E p \in Players : Leave(p)
         \/ \E p \in Players, c \in Clans : Enrol(p, c)

TSpec == TInit /\ [][TNext]_terrVars

=============================================================================
