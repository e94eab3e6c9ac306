-------------------------- MODULE ResolutionProperties --------------------------
(***************************************************************************)
(* What the resolution of declarations promises to whoever asks, and what  *)
(* its comments say of it.                                                 *)
(***************************************************************************)
EXTENDS DeclResolution, Digraphs

Idle == stack = << >>

OnStack == {stack[i].name : i \in DOMAIN stack}

MentionedIn(member) == {member.of[i].to : i \in DOMAIN member.of}

(* The names a declaration's members mention.                              *)
Mentioned(n) ==
    UNION {MentionedIn(program[n].members[i]) : i \in DOMAIN program[n].members}

MentionGraph == [n \in DOMAIN program |-> Mentioned(n) \cap DOMAIN program]

(* What resolving a declaration can ask for.                               *)
AskGraph == [n \in DOMAIN program |->
               (Mentioned(n) \cup {program[n].extends}) \cap DOMAIN program]

HasDuplicate(n) ==
    /\ program[n].kind # "class"
    /\ \E i, j \in DOMAIN program[n].members :
          i # j /\ program[n].members[i].name = program[n].members[j].name

(* Every mention is of something, and no alias is needed to resolve itself.*)
IsSound(n) ==
    \A m \in Reachable(MentionGraph)[n] :
       /\ Mentioned(m) \subseteq DOMAIN program \cup PrimitiveNames
       /\ ~ HasDuplicate(m)
       /\ ~ SelfReferenceable(m) => m \notin OnCycle(MentionGraph)

NothingFailed == \A slot \in DOMAIN arena.decls : arena.decls[slot].state # "failed"

IsFinishedObject(n) == IsResolved(n) /\ SelfReferenceable(n) /\ n \notin OnStack

BodyOf(n) == Get(arena, entries[n].resolved)

(* The member that decides a property: the last one of the name.           *)
Deciding(n, i) ==
    \A j \in DOMAIN program[n].members :
       j > i => program[n].members[j].name # program[n].members[i].name

-----------------------------------------------------------------------------
(* A declaration is never entered while it is being resolved: the          *)
(* recursion of resolve ends whatever mentions what.                       *)
NotEnteredTwice == \A i, j \in DOMAIN stack : stack[i].name = stack[j].name => i = j

(* Nothing is half built but what is being resolved: no other declaration  *)
(* is marked as such, and every reference another one was given has a      *)
(* body, however many resolutions failed on the way.                       *)
NothingHalfBuilt ==
    \A n \in DOMAIN program \ OnStack :
       /\ ~ entries[n].resolving
       /\ IsResolved(n) /\ SelfReferenceable(n) =>
             LET type == arena.types[entries[n].resolved]
             IN  type.kind = "ref" /\ arena.decls[type.slot].state = "resolved"

(* Every id is there, and equal content has one, whatever the digests: an  *)
(* id answers for the type in every cache.                                 *)
OneIdPerContent ==
    /\ TypeOK
    /\ \A i, j \in Ids(arena) :
          /\ arena.types[i].kind \in {"object", "array"}
          /\ arena.types[i] = arena.types[j]
          => i = j

(* A member that mentions one declaration has that declaration's own id,   *)
(* also through recursion, as long as nothing failed.                      *)
MembersNameTheirTypes ==
    NothingFailed =>
       \A n \in DOMAIN program : IsFinishedObject(n) =>
          \A i \in DOMAIN program[n].members :
             LET member == program[n].members[i]
                 type == BodyOf(n).properties[member.name].type
                 to == member.of[1].to
             IN  (Len(member.of) = 1 /\ Declared(to) /\ Deciding(n, i)) =>
                   IF member.of[1].array
                   THEN arena.types[type] = ArrayNode(entries[to].resolved)
                   ELSE type = entries[to].resolved

(* The ids a written union stands for.                                     *)
WrittenIds(member) ==
    {IF Declared(a.to) THEN entries[a.to].resolved ELSE PrimitiveId(a.to) :
        a \in {member.of[i] : i \in DOMAIN member.of}}

MembersOfUnion(id) ==
    LET type == Get(arena, id) IN IF type.kind = "union" THEN ToSet(type.members) ELSE {id}

(* Members that read as different things whatever is still to be resolved: *)
(* a declaration without a body already reads as an object.                *)
ToldApart(v, w) ==
    \/ v = w \/ Get(arena, v).kind # Get(arena, w).kind
    \/ Get(arena, v).kind = "primitive"

(* A union has every member it was written with, but never, and no other.  *)
UnionIsWhole(member, id) ==
    LET written == UNION {MembersOfUnion(w) : w \in WrittenIds(member)}
        held == MembersOfUnion(id)
    IN  (\A v, w \in written : ToldApart(v, w)) =>
          /\ \A w \in written : Get(arena, w) # PrimitiveNode("never") =>
                \E m \in held : StructurallyEqual(arena, w, m)
          /\ \A m \in held : \E w \in written : StructurallyEqual(arena, w, m)

IsUnionOfNames(member) ==
    Len(member.of) > 1 /\ \A j \in DOMAIN member.of : ~ member.of[j].array

(* Opening a union once opens all of it: no union has another among its    *)
(* members, also through a name.  A union of names is stored whole though  *)
(* other unions share its digest, unless a member is taken for another     *)
(* before either has a body (alloc_union).                                 *)
UnionsAreWhole ==
    /\ \A id \in Ids(arena) : arena.types[id].kind = "union" =>
          \A i \in DOMAIN arena.types[id].members :
             Get(arena, arena.types[id].members[i]).kind # "union"
    /\ NothingFailed =>
          \A n \in DOMAIN program : IsFinishedObject(n) =>
             \A i \in DOMAIN program[n].members :
                LET member == program[n].members[i]
                IN  IsUnionOfNames(member) /\ Deciding(n, i) =>
                       UnionIsWhole(member, BodyOf(n).properties[member.name].type)

InheritsFrom(n, parent) ==
    LET own == {program[n].members[i].name : i \in DOMAIN program[n].members}
        inherited == BodyOf(parent).properties
    IN  \A name \in DOMAIN inherited \ own :
           /\ name \in DOMAIN BodyOf(n).properties
           /\ BodyOf(n).properties[name] = inherited[name]

IsChildOf(n, parent) ==
    /\ IsFinishedObject(n) /\ program[n].kind = "class"
    /\ parent = program[n].extends
    /\ Declared(parent) /\ IsFinishedObject(parent)

(* A class has its parent's members, if nothing is wrong with the parent   *)
(* and it can be resolved without the class: such a parent is never passed *)
(* over and later resolved.                                                *)
InheritsFromOthers ==
    \A n, parent \in DOMAIN program :
       /\ IsChildOf(n, parent)
       /\ IsSound(parent) /\ n \notin Reachable(AskGraph)[parent]
       => InheritsFrom(n, parent)

(* A declaration whose mentions all resolve gets its type at the first     *)
(* request, whatever was asked, and failed, before.                        *)
SoundIsResolved ==
    Idle => \A i \in DOMAIN requests : IsSound(requests[i]) => IsResolved(requests[i])

(* Every request is answered.                                              *)
RequestsEnd == (stack # << >>) ~> Idle

-----------------------------------------------------------------------------
(* Claims of the comments.                                                 *)

(* "Builds a class's structural shape by first copying the parent's own    *)
(* already resolved properties" (resolve_class).                           *)
ParentIsCopied ==
    Idle => \A n, parent \in DOMAIN program : IsChildOf(n, parent) => InheritsFrom(n, parent)

=============================================================================
