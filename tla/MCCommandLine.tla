--------------------------- MODULE MCCommandLine ---------------------------
(***************************************************************************)
(* A server with the services "Fb", "F" and "FbS": the command of the      *)
(* second begins that of the first, and the third, with "S" for "Service", *)
(* has the command of the first.  The program has commands of its own.     *)
(***************************************************************************)
EXTENDS CommandLine

F == 2  C == 4  S == 5
f == 12 b == 13 c == 14

Fld(tag, type) == [tag |-> tag, type |-> type, attrs |-> {}, fields |-> <<>>]
Object(attrs)  == [tag |-> "obj", type |-> "struct", attrs |-> attrs,
                   fields |-> <<Fld("n", "int")>>]

\* "bC" is "b-c", a create.
Service(name, methods) == [name |-> name, methods |-> methods]
Fb  == Service(<<F, b>>, <<[name |-> <<b>>, fields |-> <<Object({})>>]>>)
FbS == Service(<<F, b, S>>, <<[name |-> <<b>>, fields |-> <<>>]>>)
Ff  == Service(<<F>>,
         <<[name |-> <<b>>, fields |-> <<Fld("s", "string"), Fld("a", "array")>>],
           [name |-> <<b, C>>, fields |-> <<Object({"create_required"}), Fld("n", "int")>>]>>)
NotReady == Service(<<C>>, <<>>)

MCApiLists == {<<>>, <<Fb, Ff, FbS>>, <<Fb, NotReady, Ff>>}

\* "fb b", "f b", "f  b-c", "f-c", "c", "help" and one with an empty argument.
MCLines ==
  {[path |-> p, empty |-> FALSE] :
     p \in {<<f, b, Sp, b>>, <<f, Sp, b>>, <<f, Sp, Sp, b, Dash, c>>, <<f, Dash, c>>, <<c>>,
            <<18>>}}
    \cup {[path |-> <<c>>, empty |-> TRUE]}

MCCustom ==
  {[path |-> <<f, Sp, b>>, registers |-> FALSE], [path |-> <<c>>, registers |-> TRUE]}

\* 2^53 + 1 has no float64.
MCReads ==
  [string |-> [v \in {"9007199254740993", "yes"} |-> v],
   int    |-> [v \in {"9007199254740993"} |-> "9007199254740992"]]

File(form, names, last) == [form |-> form, services |-> names, last |-> last]

MCConfigs ==
  {<<File("bad", <<>>, NoService), File("list", <<"s1", "s2">>, "s3")>>,
   <<File("empty", <<>>, "s1"), File("single", <<"s1">>, NoService)>>,
   <<File("empty", <<>>, "s2"), File("list", <<"s1", "s2">>, NoService)>>,
   <<File("bad", <<"s1">>, NoService), File("single", <<"s2">>, NoService)>>,
   <<File("list", <<"s1", "no port">>, "no port")>>}

MCServiceSuffix == <<Dash, 15>>
MCCreateSuffix  == <<Dash, c>>
MCUpdateSuffix  == <<Dash, 16>>
MCHelpPath == <<18>>
MCRenders  == {<<<<f>>, <<b>>>>}
=============================================================================
