----------------------------- MODULE MCModuleGraph -----------------------------
(***************************************************************************)
(* Two source files, a JSON file, a package that ships JavaScript with     *)
(* declarations beside it, and one that is only known under @types.        *)
(***************************************************************************)
EXTENDS ModuleGraph

CONSTANTS A, Data, Main, TypesOfLib, PkgTypes, PkgCode

AllPaths == {A, Data, Main, TypesOfLib, PkgTypes, PkgCode}

Code == AllPaths \ {Data}

AllSpecifiers == {"./a", "./main", "./data", "pkg", "lib", "@types/lib", "@types/pkg", "./gone"}

AtRuntime ==
    [from \in AllPaths |-> [s \in AllSpecifiers |->
        CASE s = "./a" -> A [] s = "./main" -> Main [] s = "./data" -> Data
          [] s = "pkg" -> PkgCode [] OTHER -> NoFile]]

AsDeclared ==
    [from \in AllPaths |-> [s \in AllSpecifiers |->
        CASE s = "./a" -> A [] s = "./main" -> Main
          [] s = "pkg" -> PkgTypes [] s = "@types/lib" -> TypesOfLib [] OTHER -> NoFile]]

UnderTypes == [s \in {"pkg", "lib"} |-> IF s = "pkg" THEN "@types/pkg" ELSE "@types/lib"]

(* A file that makes these requests in this order.                         *)
Asks(requests) ==
    [requests |-> {[place |-> i, form |-> requests[i][1], specifier |-> requests[i][2]] :
                     i \in DOMAIN requests},
     exports |-> FALSE, parse |-> "whole"]

Menu == {<<"import", "./a">>, <<"dynamic", "./a">>, <<"block", "./a">>,
         <<"import", "pkg">>, <<"importType", "pkg">>, <<"dynamic", "pkg">>,
         <<"reExportType", "lib">>, <<"bare", "./data">>, <<"importEqualsType", "./gone">>}

ContentsOfMain ==
    {Asks(<<p, q>>) : p, q \in Menu}
    \cup {[Asks(<< <<"import", "./a">> >>) EXCEPT !.parse = how] : how \in {"recovered", "fatal"}}

ContentsOfA ==
    {Asks(<< >>), Asks(<< <<"import", "./main">> >>), Asks(<< <<"block", "pkg">> >>),
     [Asks(<< <<"block", "pkg">>, <<"reExport", "./a">> >>) EXCEPT !.exports = TRUE]}

SomeDisks ==
    {[p \in AllPaths |->
        Written(1, CASE p = Main -> main [] p = A -> other
                     [] p = PkgTypes -> Asks(<< <<"import", "lib">> >>)
                     [] OTHER -> Asks(<< >>))] : main \in ContentsOfMain, other \in ContentsOfA}

SomeEntries == {<<Main>>, <<Main, A, Main>>}

SomeEdits ==
    [p \in AllPaths |->
        CASE p = A -> {Asks(<< >>), Asks(<< <<"import", "./main">>, <<"import", "lib">> >>), Absent}
          [] p = Main -> {Asks(<< <<"import", "./a">> >>)}
          [] OTHER -> {}]
=============================================================================
