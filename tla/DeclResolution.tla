----------------------------- MODULE DeclResolution -----------------------------
(***************************************************************************)
(* Lazy resolution of declarations (src/src/namespace.rs, resolve): a      *)
(* declaration becomes a type the first time something asks for it, and    *)
(* whatever it mentions is resolved on the way.  The recursion of the code *)
(* is a stack of frames, one for each declaration being resolved.          *)
(***************************************************************************)
EXTENDS TypeArena

CONSTANTS Names,       \* the names a file can declare
          Programs,    \* the programs considered
          MaxRequests  \* bound on the requests from outside

(* Annotations no rule resolves are all alike.                             *)
Unsupported == "unsupported"

(* One part of an annotation: what it mentions, perhaps an array of it.    *)
Atoms == [to : Names \cup PrimitiveNames \cup {Unsupported}, array : BOOLEAN]

(* A member has a union of parts as its type; an alias is one member with  *)
(* no name.                                                                *)
NoName == "none"

Members == [name : Property \cup {NoName}, optional : BOOLEAN, of : Seq(Atoms)]

Decls == [kind : {"interface", "class", "literal", "alias"},
          extends : Names \cup {NoName}, members : Seq(Members)]

(* A file's declarations by name; the parts of an interface declared more  *)
(* than once are one list of members.                                      *)
IsProgram(decls) ==
    /\ DOMAIN decls \subseteq Names
    /\ \A n \in DOMAIN decls :
          /\ decls[n] \in Decls
          /\ decls[n].kind # "class" => decls[n].extends = NoName
          /\ decls[n].kind = "alias" => Len(decls[n].members) = 1
          /\ \A i \in DOMAIN decls[n].members :
                /\ decls[n].members[i].of # << >>
                /\ (decls[n].members[i].name = NoName) <=> (decls[n].kind = "alias")

ASSUME NamesAssumption == 
    /\ NoName \notin Names \cup Property
    /\ (Names \cup Property) \cap (PrimitiveNames \cup {Unsupported}) = {}

ASSUME ProgramsAssumption == \A decls \in Programs : IsProgram(decls)

ASSUME MaxRequestsAssumption == MaxRequests \in Nat

VARIABLES program,   \* the declarations of the file
          arena,     \* its types
          entries,   \* what the namespace knows of each declaration
          stack,     \* the declarations being resolved, innermost first
          failing,   \* the innermost frame was just answered with NotFound
          requests   \* the names asked for from outside, latest first

vars == <<program, arena, entries, stack, failing, requests>>

(* resolved is the type's id, NoType before there is one.                  *)
NoType == 0

(* at is the member being resolved, 0 while a class looks for its parent;  *)
(* parts the types of its parts so far; properties the finished members.   *)
Frames(ids) == [name : Names, ref : ids \cup {NoType}, at : Nat, parts : Seq(ids),
                properties : Properties(ids)]

TypeOK ==
    /\ program \in Programs
    /\ IsArena(arena)
    /\ entries \in [DOMAIN program -> [resolved : Ids(arena) \cup {NoType}, resolving : BOOLEAN]]
    /\ stack \in Seq(Frames(Ids(arena)))
    /\ failing \in BOOLEAN
    /\ requests \in Seq(Names)

-----------------------------------------------------------------------------
Declared(n) == n \in DOMAIN program

IsResolved(n) == Declared(n) /\ entries[n].resolved # NoType

IsResolving(n) == Declared(n) /\ entries[n].resolving

IsUntouched(n) == Declared(n) /\ ~ IsResolved(n) /\ ~ entries[n].resolving

(* Object-shaped declarations may mention themselves.                      *)
SelfReferenceable(n) == program[n].kind # "alias"

Top == Head(stack)

TopDecl == program[Top.name]

AtHeritage == Top.at = 0

AtMember == Top.at \in DOMAIN TopDecl.members

Member == TopDecl.members[Top.at]

AtPart == AtMember /\ Len(Top.parts) < Len(Member.of)

Part == Member.of[Len(Top.parts) + 1]

WithTop(frame) == <<frame>> \o Tail(stack)

Init ==
    /\ program \in Programs
    /\ arena = NewArena
    /\ entries = [n \in DOMAIN program |-> [resolved |-> NoType, resolving |-> FALSE]]
    /\ stack = << >>
    /\ failing = FALSE
    /\ requests = << >>

-----------------------------------------------------------------------------
Frame(n, ref) ==
    [name |-> n, ref |-> ref, at |-> IF program[n].extends = NoName THEN 1 ELSE 0,
     parts |-> << >>, properties |-> NoProperties]

(* An object-shaped declaration gets its reference before its members.     *)
EnterObject(n) ==
    LET new == AllocRef(arena)
    IN  /\ arena' = new.arena
        /\ entries' = [entries EXCEPT ![n].resolved = new.id]
        /\ stack' = <<Frame(n, new.id)>> \o stack

EnterAlias(n) ==
    /\ entries' = [entries EXCEPT ![n].resolving = TRUE]
    /\ stack' = <<Frame(n, NoType)>> \o stack
    /\ UNCHANGED arena

(* Mistake: the reference is only there once the members are.              *)
EnterUnmarked(n) ==
    /\ IsUntouched(n)
    /\ stack' = <<Frame(n, NoType)>> \o stack
    /\ UNCHANGED <<arena, entries>>

(* resolve of a name nothing is known of yet.                              *)
Enter(n) ==
    /\ IsUntouched(n)
    /\ IF SelfReferenceable(n) THEN EnterObject(n) ELSE EnterAlias(n)

(* Something outside asks for a name.                                      *)
Request(n) ==
    /\ stack = << >> /\ Len(requests) < MaxRequests
    /\ Enter(n)
    /\ requests' = <<n>> \o requests
    /\ UNCHANGED <<program, failing>>

Running == stack # << >> /\ ~ failing

-----------------------------------------------------------------------------
(* A class and its parent: resolve_class.                                  *)

AskParent ==
    /\ Running /\ AtHeritage
    /\ Enter(TopDecl.extends)
    /\ UNCHANGED <<program, failing, requests>>

(* Mistake: the parent's members are not looked at.                        *)
InheritNothing ==
    /\ Running /\ AtHeritage /\ ~ IsUntouched(TopDecl.extends)
    /\ stack' = WithTop([Top EXCEPT !.at = 1])
    /\ UNCHANGED <<program, arena, entries, failing, requests>>

(* The parent's properties as they read now.  A parent that is not there,  *)
(* is being resolved or is no object gives none.                           *)
Inherit ==
    /\ Running /\ AtHeritage /\ ~ IsUntouched(TopDecl.extends)
    /\ LET parent == IF IsResolved(TopDecl.extends)
                     THEN Get(arena, entries[TopDecl.extends].resolved) ELSE EmptyObject
       IN  stack' = WithTop([Top EXCEPT !.at = 1,
                              !.properties = IF parent.kind = "object" THEN parent.properties ELSE @])
    /\ UNCHANGED <<program, arena, entries, failing, requests>>

(* Mistake: a parent that failed is asked for again.                       *)
AskAgain ==
    /\ stack # << >> /\ failing /\ AtHeritage
    /\ failing' = FALSE
    /\ UNCHANGED <<program, arena, entries, stack, requests>>

(* A parent that fails is passed over.                                     *)
PassOver ==
    /\ stack # << >> /\ failing /\ AtHeritage
    /\ failing' = FALSE
    /\ stack' = WithTop([Top EXCEPT !.at = 1])
    /\ UNCHANGED <<program, arena, entries, requests>>

-----------------------------------------------------------------------------
(* The parts of an annotation: resolve_ts_type.                            *)

AskPart ==
    /\ Running /\ AtPart
    /\ Enter(Part.to)
    /\ UNCHANGED <<program, failing, requests>>

(* Mistake: the body is taken for the declaration.                         *)
AnswerWithBody ==
    /\ Running /\ AtPart
    /\ IsResolved(Part.to) \/ Part.to \in PrimitiveNames
    /\ LET of == IF IsResolved(Part.to) THEN Behind(arena, entries[Part.to].resolved)
                 ELSE PrimitiveId(Part.to)
           new == IF Part.array THEN Alloc(arena, ArrayNode(of)) ELSE [arena |-> arena, id |-> of]
       IN  /\ arena' = new.arena
           /\ stack' = WithTop([Top EXCEPT !.parts = Append(@, new.id)])
    /\ UNCHANGED <<program, entries, failing, requests>>

(* A part that has a type, wrapped if it is an array of it.                *)
AnswerPart ==
    /\ Running /\ AtPart
    /\ IsResolved(Part.to) \/ Part.to \in PrimitiveNames
    /\ LET of == IF IsResolved(Part.to) THEN entries[Part.to].resolved ELSE PrimitiveId(Part.to)
           new == IF Part.array THEN Alloc(arena, ArrayNode(of)) ELSE [arena |-> arena, id |-> of]
       IN  /\ arena' = new.arena
           /\ stack' = WithTop([Top EXCEPT !.parts = Append(@, new.id)])
    /\ UNCHANGED <<program, entries, failing, requests>>

(* The type of the member: only a written union is built as one.           *)
Annotated == IF Len(Member.of) = 1 THEN [arena |-> arena, id |-> Head(Top.parts)]
             ELSE AllocUnion(arena, Top.parts)

AtEndOfMember == AtMember /\ ~ AtPart

IsDuplicate == TopDecl.kind # "class" /\ Member.name \in DOMAIN Top.properties

(* A class's member takes the place of an inherited one.                   *)
CloseMember ==
    /\ Running /\ AtEndOfMember /\ SelfReferenceable(Top.name) /\ ~ IsDuplicate
    /\ LET type == Annotated
       IN  /\ arena' = type.arena
           /\ stack' = WithTop([Top EXCEPT !.at = @ + 1, !.parts = << >>,
                                  !.properties = With(@, Member.name,
                                     [type |-> type.id, optional |-> Member.optional,
                                      method |-> FALSE])])
    /\ UNCHANGED <<program, entries, failing, requests>>

-----------------------------------------------------------------------------
(* The end of resolve_entry.                                               *)

Finish ==
    /\ Running /\ Top.at = Len(TopDecl.members) + 1 /\ SelfReferenceable(Top.name)
    /\ LET body == Alloc(arena, ObjectNode(Top.properties))
       IN  arena' = ResolveRef(body.arena, body.arena.types[Top.ref].slot, body.id)
    /\ stack' = Tail(stack)
    /\ UNCHANGED <<program, entries, failing, requests>>

FinishAlias ==
    /\ Running /\ AtEndOfMember /\ ~ SelfReferenceable(Top.name)
    /\ LET named == AllocNamed(Annotated.arena, Annotated.id)
       IN  /\ arena' = named.arena
           /\ entries' = [entries EXCEPT ![Top.name] = [resolved |-> named.id, resolving |-> FALSE]]
    /\ stack' = Tail(stack)
    /\ UNCHANGED <<program, failing, requests>>

(* A part without a type: not supported, not declared, or the alias that   *)
(* is being resolved (Circular).                                           *)
CannotAnswer ==
    /\ AtPart
    /\ \/ Part.to = Unsupported
       \/ Part.to \in Names /\ ~ Declared(Part.to)
       \/ IsResolving(Part.to)

(* Mistake: a parent that failed fails its child.                          *)
FailsWithParent == failing \/ CannotAnswer \/ (AtEndOfMember /\ IsDuplicate)

Fails ==
    \/ failing /\ ~ AtHeritage
    \/ ~ failing /\ (CannotAnswer \/ (AtEndOfMember /\ IsDuplicate))

(* Mistake: the entry keeps its reference.                                 *)
FailKeeping ==
    /\ stack # << >> /\ Fails
    /\ arena' = IF Top.ref = NoType THEN arena ELSE FailRef(arena, arena.types[Top.ref].slot)
    /\ entries' = [entries EXCEPT ![Top.name].resolving = FALSE]
    /\ stack' = Tail(stack)
    /\ failing' = (Len(stack) > 1)
    /\ UNCHANGED <<program, requests>>

(* A failed declaration is as if it had never been asked for; what its     *)
(* members allocated, and the entries they finished, stay.                 *)
Fail ==
    /\ stack # << >> /\ Fails
    /\ arena' = IF Top.ref = NoType THEN arena ELSE FailRef(arena, arena.types[Top.ref].slot)
    /\ entries' = [entries EXCEPT ![Top.name] = [resolved |-> NoType, resolving |-> FALSE]]
    /\ stack' = Tail(stack)
    /\ failing' = (Len(stack) > 1)
    /\ UNCHANGED <<program, requests>>

Step == \/ AskParent \/ Inherit \/ PassOver \/ AskPart \/ AnswerPart \/ CloseMember
        \/ Finish \/ FinishAlias \/ Fail

Next == Step \/ \E n \in Names : Request(n)

(* One thread runs a resolution to its end.                                *)
Spec == Init /\ [][Next]_vars /\ WF_vars(Step)
=============================================================================
