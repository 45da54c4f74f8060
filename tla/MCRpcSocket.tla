---------------------------- MODULE MCRpcSocket ----------------------------
(* The one program main() puts into pn->programs, and the requests clients  *)
(* make about it and about others.                                          *)
EXTENDS RpcSocket, TLC

CONSTANTS c1, c2, c3, p1, p2

web     == <<"w", "eb">>
webmail == <<"w", "eb", "mail">>
other   == <<"x">>

Symmetry == Permutations(Pids)

MCPrograms   == << [name |-> webmail, nprocs |-> 2, args_len |-> 1] >>
MCOneProcess == << [name |-> webmail, nprocs |-> 1, args_len |-> 1] >>

Optional(entries) == {<<>>} \cup {<<e>> : e \in entries}

Methods == {RawField(request, m) : m \in {dance, restart, status, create, <<>>, <<"s">>, other}}
ProgramFields ==
  Optional({RawField(program, n) : n \in {web, webmail, other}}
            \cup {UintField(program, 1), RawField(<<"p">>, webmail), RawField(<<>>, webmail)})
\* 6 and 7 are -2 and -1 in three bits
InstanceFields ==
  Optional({UintField(instance, i) : i \in {0, 1, 2, 6, 7}}
            \cup {IntField(instance, i) : i \in {-1, -2}} \cup {RawField(instance, web)})

\* Only restart reads the instance.
AllRequests ==
  {Map(<<m>> \o p) : m \in Methods, p \in ProgramFields}
    \cup {Map(<<RawField(request, restart)>> \o p \o i) : p \in ProgramFields, i \in InstanceFields}
    \cup {Map(<<RawField(program, web), RawField(request, create)>> \o o) :
            o \in Optional({RawField(command, other), RawField(<<"c">>, other)})}
    \cup {NotAMap, Map(<<>>)}

FewRequests ==
  {Map(<<RawField(request, restart), RawField(program, webmail)>>),
   Map(<<RawField(request, status)>>), Map(<<RawField(request, other)>>)}
=============================================================================
