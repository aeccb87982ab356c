-------------------------------- MODULE Identity --------------------------------
(***************************************************************************)
(* vault_auth_method_entity_aliases and vault_group: who a user is in      *)
(* Vault, and what the groups of that entity grant.  A play maps users to  *)
(* entities and then sets the members of each group, in the order of the   *)
(* declaration.  Around it users log in, operators delete entities with    *)
(* vault_entity, and other control nodes run plays of their own.           *)
(*                                                                         *)
(* Entities and aliases are known by ids, which Vault never gives twice    *)
(* (an alias's is here when nothing remembers it); groups by name.  A      *)
(* request is a step, which may fail with or without its effect.           *)
(* Metadata, and policies of entities, are left out.                       *)
(***************************************************************************)
EXTENDS Naturals, Sequences, FiniteSets, SequencesExt

CONSTANTS Plays, Users, Names, Groups, Nothing,
          Declared,      \* per run: [alias, order, group], see DeclaredType
          Policies,
          Followed,      \* users whose tokens are kept track of
          MaxId,         \* bound: ids, see IdentityTypeOK
          MaxDisturbances  \* bound: requests that fail, entities deleted by
                           \* operators, entities generated by logins

Ids == 1..MaxId

\* subgroups are the member_groups; a group that is Nothing has state absent.
GroupType == [members : SUBSET Names, subgroups : SUBSET Groups, policies : SUBSET Policies]
DeclaredType ==
  [alias : [Users -> Names \cup {Nothing}],
   order : Seq(Groups),
   group : [Groups -> GroupType \cup {Nothing}]]

\* What Vault has of a group: its members are ids.
StoredType == [members : SUBSET Nat, subgroups : SUBSET Groups, policies : SUBSET Policies]

ASSUME NothingAssumption == Nothing \notin Names \cup StoredType \cup GroupType
ASSUME DeclaredAssumption == \A r \in Plays : Declared[r] \in DeclaredType

VARIABLES
  entities,  \* Vault: id -> name, for the entities there are (Nothing: generated by a login)
  aliases,   \* Vault: set of [id, user, entity] of the auth method
  groups,    \* Vault: group -> what it has, or Nothing
  tokens,    \* set of <<user, entity>>: tokens issued and not expired
  lastId,    \* of an entity
  play,      \* per run: where it is and what it has read
  undisturbed, \* runs since whose start only plays of their declaration have
               \* been at work and no entity was deleted
  disturbances

identityVars == <<entities, aliases, groups, tokens, lastId, play, undisturbed, disturbances>>
bounds == <<undisturbed, disturbances>>

Idle(r) == play[r].pc \in {"idle", "done", "failed"}
AtRest == [pc |-> "idle", listed |-> {}, todo |-> {}, user |-> Nothing, entity |-> 0,
           step |-> 1, existing |-> Nothing, ids |-> {}]

IdentityInit ==
  /\ entities = <<>> /\ aliases = {} /\ tokens = {} /\ lastId = 0
  /\ groups = [g \in Groups |-> Nothing]
  /\ play = [r \in Plays |-> AtRest]
  /\ undisturbed = {} /\ disturbances = 0

IdOf(name) == {i \in DOMAIN entities : entities[i] = name}
\* 0 where there is no such entity
Lookup(name) == IF IdOf(name) = {} THEN 0 ELSE CHOOSE i \in IdOf(name) : TRUE
Grow(i, name) == [j \in DOMAIN entities \cup {i} |-> IF j = i THEN name ELSE entities[j]]

(***************************************************************************)
(* What an entity may do: the policies of its groups, and of the groups    *)
(* these belong to.                                                        *)
(***************************************************************************)
DirectGroups(i) == {g \in Groups : groups[g] # Nothing /\ i \in groups[g].members}
Above(gs) == gs \cup {h \in Groups : groups[h] # Nothing /\ groups[h].subgroups \cap gs # {}}
Granted(i) ==
  UNION {groups[g].policies : g \in IF i \in DOMAIN entities
                                      THEN Above(Above(DirectGroups(i))) ELSE {}}
LoginEntity(u) == {a.entity : a \in {b \in aliases : b.user = u}}
\* What a user who logs in now may do.
Access(u) == UNION {Granted(i) : i \in LoginEntity(u)}

Disturb == disturbances < MaxDisturbances /\ disturbances' = disturbances + 1

Abort(r) == play' = [play EXCEPT ![r] = [AtRest EXCEPT !.pc = "failed"]]

StartPlay(r) ==
  /\ Idle(r)
  /\ play' = [play EXCEPT ![r] = [AtRest EXCEPT !.pc = "list"]]
  /\ LET Same(q) == Declared[q] = Declared[r] IN
     undisturbed' = {q \in undisturbed \ {r} : Same(q)}
                      \cup {q \in {r} : \A p \in Plays : Idle(p) \/ Same(p)}
  /\ UNCHANGED <<entities, aliases, groups, tokens, lastId, disturbances>>

(***************************************************************************)
(* The aliases.                                                            *)
(***************************************************************************)
Decl(r) == Declared[r]
Mapped(r) == {u \in Users : Decl(r).alias[u] # Nothing}

\* Mutant: every alias is made anew.
SuperfluousAll(r) == aliases
Superfluous(r) == {a \in aliases : a.user \notin Mapped(r)}

ListAliases(r) ==
  /\ play[r].pc = "list"
  /\ play' = [play EXCEPT ![r].pc = "unlist", ![r].listed = aliases,
                          ![r].todo = {a.id : a \in Superfluous(r)}]
  /\ UNCHANGED <<entities, aliases, groups, tokens, lastId, bounds>>

DeleteUnlisted(r) ==
  /\ play[r].pc = "unlist"
  /\ \E i \in play[r].todo :
       /\ aliases' = {a \in aliases : a.id # i}
       /\ play' = [play EXCEPT ![r].todo = @ \ {i}]
  /\ UNCHANGED <<entities, groups, tokens, lastId, bounds>>

\* Mutant: without waiting for the deletions.
UnlistedEarly(r) == play[r].pc = "unlist"
Unlisted(r) == play[r].pc = "unlist" /\ play[r].todo = {}

BeginMapping(r) ==
  /\ Unlisted(r)
  /\ play' = [play EXCEPT ![r].pc = "alias", ![r].todo = Mapped(r)]
  /\ UNCHANGED <<entities, aliases, groups, tokens, lastId, bounds>>

\* What the listing at the start said of a user's alias.
Matching(r, u) == {a \in play[r].listed : a.user = u}
Matches(r, u, i) == \E a \in Matching(r, u) : a.entity = i

\* The entity is looked up; one found that is the alias's needs nothing more.
LookupEntity(r) ==
  /\ play[r].pc = "alias"
  /\ \E u \in play[r].todo :
       LET i == Lookup(Decl(r).alias[u]) IN
       play' = IF Matches(r, u, i)
                 THEN [play EXCEPT ![r].todo = @ \ {u}]
                 ELSE [play EXCEPT ![r].todo = @ \ {u}, ![r].user = u, ![r].entity = i,
                                   ![r].pc = IF i = 0 THEN "create" ELSE "write"]
  /\ UNCHANGED <<entities, aliases, groups, tokens, lastId, bounds>>

\* POST of an entity by name answers with the id of a new one and with nothing if
\* it is there by now, on which both modules stop.
Created(r, name, GoesOn) ==
  IF IdOf(name) = {}
    THEN /\ lastId' = lastId + 1
         /\ entities' = Grow(lastId + 1, name)
         /\ GoesOn
    ELSE /\ Abort(r)
         /\ UNCHANGED <<entities, lastId>>

CreateEntity(r) ==
  /\ play[r].pc = "create"
  /\ Created(r, Decl(r).alias[play[r].user],
       play' = [play EXCEPT ![r].entity = lastId + 1, ![r].pc = "write"])
  /\ UNCHANGED <<aliases, groups, tokens, bounds>>

NewAlias(u, i) ==
  [user |-> u, entity |-> i,
   id |-> CHOOSE n \in Ids :
            n \notin {a.id : a \in aliases} \cup UNION {play[r].todo : r \in Plays}]

\* POST of an alias by name and mount makes it or points it to the entity.
Point(u, i) ==
  aliases' = IF \E a \in aliases : a.user = u
               THEN {IF a.user = u THEN [a EXCEPT !.entity = i] ELSE a : a \in aliases}
               ELSE aliases \cup {NewAlias(u, i)}

\* Vault refuses an entity that is gone.
WriteAlias(r) ==
  /\ play[r].pc = "write"
  /\ IF play[r].entity \in DOMAIN entities
       THEN /\ Point(play[r].user, play[r].entity)
            /\ play' = [play EXCEPT ![r].pc = "alias", ![r].user = Nothing, ![r].entity = 0]
       ELSE Abort(r) /\ UNCHANGED aliases
  /\ UNCHANGED <<entities, groups, tokens, lastId, bounds>>

(***************************************************************************)
(* The groups.                                                             *)
(***************************************************************************)
GroupOf(r) == Decl(r).order[play[r].step]
Wanted(r) == Decl(r).group[GroupOf(r)]
MoreGroups(r) == play[r].step <= Len(Decl(r).order)
NextGroup(r) ==
  [play EXCEPT ![r].pc = "group", ![r].step = @ + 1, ![r].existing = Nothing,
               ![r].ids = {}, ![r].listed = {}]

ReadGroup(r) ==
  /\ \/ play[r].pc = "alias" /\ play[r].todo = {}
     \/ play[r].pc = "group"
  /\ MoreGroups(r)
  /\ play' = CASE Wanted(r) # Nothing ->
                    [play EXCEPT ![r].pc = "members", ![r].existing = groups[GroupOf(r)],
                                 ![r].todo = Wanted(r).members, ![r].listed = {}]
               [] Wanted(r) = Nothing /\ groups[GroupOf(r)] # Nothing ->
                    [play EXCEPT ![r].pc = "remove", ![r].listed = {}]
               [] OTHER -> NextGroup(r)
  /\ UNCHANGED <<entities, aliases, groups, tokens, lastId, bounds>>

WithoutGroup(g) ==
  [h \in Groups |-> CASE h = g \/ groups[h] = Nothing -> Nothing
                     [] OTHER -> [groups[h] EXCEPT !.subgroups = @ \ {g}]]

RemoveGroup(r) ==
  /\ play[r].pc = "remove"
  /\ groups' = WithoutGroup(GroupOf(r))
  /\ play' = NextGroup(r)
  /\ UNCHANGED <<entities, aliases, tokens, lastId, bounds>>

FindMember(r) ==
  /\ play[r].pc = "members"
  /\ \E n \in play[r].todo :
       LET i == Lookup(n) IN
       play' = IF i # 0
                 THEN [play EXCEPT ![r].todo = @ \ {n}, ![r].ids = @ \cup {i}]
                 ELSE [play EXCEPT ![r].pc = "member", ![r].user = n]
  /\ UNCHANGED <<entities, aliases, groups, tokens, lastId, bounds>>

CreateMember(r) ==
  /\ play[r].pc = "member"
  /\ LET n == play[r].user IN
     Created(r, n, play' = [play EXCEPT ![r].todo = @ \ {n}, ![r].ids = @ \cup {lastId + 1},
                                        ![r].user = Nothing, ![r].pc = "members"])
  /\ UNCHANGED <<aliases, groups, tokens, bounds>>

Differs(had, wanted) == had = Nothing \/ had # wanted

\* The member groups are looked up, without any of which the module fails; then
\* what was read at the start is compared.
CompareGroup(r) ==
  /\ play[r].pc = "members" /\ play[r].todo = {}
  /\ LET wanted == [Wanted(r) EXCEPT !.members = play[r].ids] IN
     play' = IF \E g \in wanted.subgroups : groups[g] = Nothing
               THEN [play EXCEPT ![r] = [AtRest EXCEPT !.pc = "failed"]]
               ELSE IF Differs(play[r].existing, wanted)
                 THEN [play EXCEPT ![r].pc = "store", ![r].existing = Nothing]
                 ELSE NextGroup(r)
  /\ UNCHANGED <<entities, aliases, groups, tokens, lastId, bounds>>

StoreGroup(r) ==
  /\ play[r].pc = "store"
  /\ IF play[r].ids \subseteq DOMAIN entities
       THEN /\ groups' = [groups EXCEPT ![GroupOf(r)] =
                            [Wanted(r) EXCEPT !.members = play[r].ids]]
            /\ play' = NextGroup(r)
       ELSE /\ Abort(r)
            /\ UNCHANGED groups
  /\ UNCHANGED <<entities, aliases, tokens, lastId, bounds>>

EndPlay(r) ==
  /\ \/ play[r].pc = "alias" /\ play[r].todo = {}
     \/ play[r].pc = "group"
  /\ ~MoreGroups(r)
  /\ play' = [play EXCEPT ![r] = [AtRest EXCEPT !.pc = "done"]]
  /\ UNCHANGED <<entities, aliases, groups, tokens, lastId, bounds>>

\* A request is refused or the play interrupted; an effect without an answer is a
\* step followed by this one.
PlayFails(r) ==
  /\ ~Idle(r) /\ Disturb
  /\ Abort(r)
  /\ UNCHANGED <<entities, aliases, groups, tokens, lastId, undisturbed>>

(***************************************************************************)
(* Users, and operators with vault_entity.                                 *)
(***************************************************************************)
\* A user without an alias is given one, to a new entity that has no name.
Login(u) ==
  \/ /\ LoginEntity(u) # {}
     /\ tokens' = tokens \cup ((Followed \cap {u}) \X LoginEntity(u))
     /\ UNCHANGED <<entities, aliases, groups, lastId, play, bounds>>
  \/ /\ LoginEntity(u) = {} /\ Disturb
     /\ lastId' = lastId + 1
     /\ entities' = Grow(lastId + 1, Nothing)
     /\ aliases' = aliases \cup {NewAlias(u, lastId + 1)}
     /\ tokens' = tokens \cup ((Followed \cap {u}) \X {lastId + 1})
     /\ UNCHANGED <<groups, play, undisturbed>>

Expire ==
  /\ \E t \in tokens : tokens' = tokens \ {t}
  /\ UNCHANGED <<entities, aliases, groups, lastId, play, bounds>>

\* vault_entity, state absent: Vault takes the entity out of its groups, and its
\* aliases with it.
DeleteEntity(n) ==
  /\ IdOf(n) # {} /\ Disturb
  /\ LET i == Lookup(n) IN
     /\ entities' = [j \in DOMAIN entities \ {i} |-> entities[j]]
     /\ aliases' = {a \in aliases : a.entity # i}
     /\ groups' = [g \in Groups |-> IF groups[g] = Nothing THEN Nothing
                                    ELSE [groups[g] EXCEPT !.members = @ \ {i}]]
  /\ undisturbed' = {}
  /\ UNCHANGED <<tokens, lastId, play>>

Playing(r) ==
  \/ ListAliases(r) \/ DeleteUnlisted(r) \/ BeginMapping(r) \/ LookupEntity(r)
  \/ CreateEntity(r) \/ WriteAlias(r) \/ ReadGroup(r) \/ FindMember(r)
  \/ CreateMember(r) \/ CompareGroup(r) \/ StoreGroup(r) \/ RemoveGroup(r) \/ EndPlay(r)

IdentityNext ==
  \/ \E r \in Plays : StartPlay(r) \/ Playing(r) \/ PlayFails(r)
  \/ \E u \in Users : Login(u)
  \/ Expire
  \/ \E n \in Names : DeleteEntity(n)

IdentitySpec == IdentityInit /\ [][IdentityNext]_identityVars

-----------------------------------------------------------------------------
\* What run r's declaration gives the entity of a name, and a user.
Present(r) == {g \in ToSet(Decl(r).order) : Decl(r).group[g] # Nothing}
DeclaredGroups(r, n) == {g \in Present(r) : n \in Decl(r).group[g].members}
DeclaredAbove(r, gs) == gs \cup {h \in Present(r) : Decl(r).group[h].subgroups \cap gs # {}}
DeclaredGrant(r, n) ==
  UNION {Decl(r).group[g].policies :
           g \in DeclaredAbove(r, DeclaredAbove(r, DeclaredGroups(r, n)))}
DeclaredAccess(r, u) == IF u \in Mapped(r) THEN DeclaredGrant(r, Decl(r).alias[u]) ELSE {}

InForce(r) == play[r].pc = "done" /\ r \in undisturbed

\* The variables have their types; no two users share an alias and no two entities
\* a name, which the lookups by name rely on; MaxId leaves room for every id.
IdentityTypeOK ==
  /\ DOMAIN entities \subseteq Ids /\ lastId \in 0..MaxId
  /\ \A i, j \in DOMAIN entities :
       /\ entities[i] \in Names \cup {Nothing}
       /\ i # j /\ entities[i] # Nothing => entities[i] # entities[j]
  /\ aliases \subseteq [id : Ids, user : Users, entity : DOMAIN entities]
  /\ \A a, b \in aliases : a.id = b.id \/ a.user = b.user => a = b
  /\ \A g \in Groups : groups[g] # Nothing => groups[g].members \subseteq DOMAIN entities
  /\ tokens \subseteq Users \X Ids
  /\ undisturbed \subseteq Plays

\* Once a play has ended well, with others of the same declaration, failing
\* requests and logins going on beside it, a user who logs in may do exactly what
\* the declaration says, and a token issued before, whoever still holds it, what
\* is declared of its entity: what a group loses is taken from these tokens too.
AccessAsDeclared ==
  \A r \in Plays : InForce(r) =>
    /\ \A u \in Users : Access(u) = DeclaredAccess(r, u)
    /\ \A t \in tokens : t[2] \in DOMAIN entities =>
         Granted(t[2]) =
           IF entities[t[2]] = Nothing THEN {} ELSE DeclaredGrant(r, entities[t[2]])

Working == {r \in Plays : ~Idle(r)}

\* A user none of the plays at work declares gains nothing at any of their steps,
\* nor by logging in again: aliases go before groups are changed.  (A play of an
\* older declaration beside them may write an alias after it was listed.)
LeaverGainsNothing ==
  [][\A u \in Users : (\A r \in Working : u \notin Mapped(r) /\ r \in undisturbed)
                       => Access(u)' \subseteq Access(u)]_identityVars

\* A user who is mapped as all plays at work declare stays so through every step of
\* them, and in every group all of them declare, unless an operator deletes the
\* entity.  (The policies two groups grant may be missed between the two writes.)
KeepsAccess ==
  [][DOMAIN entities \subseteq DOMAIN entities' =>
       \A u \in Users, i \in DOMAIN entities :
         (i \in LoginEntity(u) /\ entities[i] # Nothing
            /\ \A r \in Working : Decl(r).alias[u] = entities[i])
           => /\ i \in LoginEntity(u)'
              /\ \A g \in DirectGroups(i) :
                   (\A r \in Working : g \in DeclaredGroups(r, entities[i]))
                     => i \in groups[g].members']_identityVars
===============================================================================
