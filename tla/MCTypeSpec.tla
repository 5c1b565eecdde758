----------------------------- MODULE MCTypeSpec -----------------------------
(***************************************************************************)
(* Small programs: two types of one kind (as of two functions that declare *)
(* a type of the same name), a type without a name, types that contain     *)
(* themselves and each other, tables, and every form of tag.               *)
(***************************************************************************)
EXTENDS TypeSpec, TLC

MCGoTypes == {"Host", "Host2", "Port", "Anon", "Value"}
MCKindOf  == [Host |-> "Host", Host2 |-> "Host", Port |-> "Port", Anon |-> "",
              Value |-> "any"]

Decl(name, go) ==
  [name |-> name, exported |-> TRUE, embedded |-> FALSE, json |-> "", go |-> go,
   limits |-> <<>>, enums |-> {}, dict |-> {}, attrs |-> <<>>, styles |-> <<>>]
Attr(name)         == [name |-> name, arg |-> NoArg]
FuncAttr_(name, n) == [name |-> name, arg |-> n]

Key(name) == [Decl(name, <<"string">>) EXCEPT !.json = "key",
                !.attrs = <<Attr("primary_key"), FuncAttr_("rand_hex", 12)>>]

\* Floats of two binary digits: beyond 4 the odd numbers fall between two.
MCAsFloat ==
  [n \in -8..8 |-> CASE n \in {5, -5} -> (n \div 5) * 4 [] n \in {7, -7} -> (n \div 7) * 8
                     [] OTHER -> n]

\* Fields with tags: limits in and out of order, which floats bring in order, of
\* one number, also for a map, of a negative number; attributes with and
\* without arguments; styles given twice.
Tagged ==
  {[Decl("N", <<"int">>) EXCEPT !.limits = l] :
     l \in {<<1, 2, 3>>, <<2, 1, 3>>, <<5, 4, 7>>, <<1, 0, 3>>, <<5>>, <<1, NoArg, 3>>}}
    \cup
  {[Decl("M", <<"map", "int", "string">>) EXCEPT !.limits = <<5>>]}
    \cup
  {[Decl("U", <<"uint">>) EXCEPT !.limits = l] : l \in {<<-1, 2, 3>>, <<1, 1, 1>>}}
    \cup
  {[Decl("S", <<"string">>) EXCEPT !.json = "omitempty", !.enums = {"a"},
      !.dict = {"ns", "bad ns"}, !.attrs = a,
      !.styles = <<<<"textarea_rows", 3>>, <<"color", 1>>,
                   <<"textarea_rows", 101>>, <<"textarea_rows", 4>>>>] :
     a \in {<<Attr("unique_key"), Attr("string_text")>>, <<Attr("unique_keys")>>,
            <<FuncAttr_("object_id", 7), Attr("rand_hex")>>,
            <<FuncAttr_("object_id", 8), FuncAttr_("rows", 8)>>}}

\* Fields of a host after its key.
HostFields ==
  {<<Decl("Next", <<"ptr", "Host">>), Decl("Main", <<"Port">>),
     Decl("Ports", <<"slice", "ptr", "Port">>)>>,
   <<Decl("Ports", <<"slice", "Port">>), Decl("Hosts", <<"slice", "Host">>)>>,
   <<Decl("ByName", <<"map", "string", "ptr", "Port">>),
     Decl("Data", <<"map", "int", "ptr", "Value">>),
     Decl("Meta", <<"Anon">>), Decl("Raw", <<"slice", "byte">>)>>,
   <<[Decl("Port", <<"Port">>) EXCEPT !.embedded = TRUE],
     [Decl("hidden", <<"int">>) EXCEPT !.exported = FALSE],
     Decl("Lists", <<"slice", "slice", "int">>), Decl("P", <<"ptr", "int">>),
     Decl("Bytes", <<"map", "byte", "float">>), Decl("Flags", <<"slice", "bool">>)>>}

\* Fields of a port after its key.
PortFields ==
  {<<Decl("Owner", <<"ptr", "Host">>), Decl("Tags", <<"slice", "Anon">>)>>,
   <<Decl("Others", <<"slice", "Port">>), Decl("Tag", <<"Anon">>)>>}

Program(host, port, anon) ==
  [Host  |-> <<Key("Name")>> \o host, Host2 |-> <<Decl("Other", <<"Anon">>)>>,
   Port  |-> <<Key("No")>> \o port,
   Anon  |-> <<anon, Decl("Deep", <<"slice", "Value">>)>>,
   Value |-> <<Decl("V", <<"string">>)>>]

\* The tags do not change the descent: each is tried in one program, with a
\* table of ports that have the field beside their key.
MCPrograms ==
  {Program(h, p, Decl("X", <<"string">>)) : h \in HostFields, p \in PortFields}
    \cup {Program(<<Decl("Ports", <<"slice", "Port">>)>>, <<t>>, t) : t \in Tagged}

Symmetry == Permutations(Procs)
=============================================================================
