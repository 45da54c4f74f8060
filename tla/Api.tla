-------------------------------- MODULE Api --------------------------------
(***************************************************************************)
(* The requests the daemon answers and the replies it packs: obj_get       *)
(* (src/msgpack_helpers.c), the dispatch by method name (src/pn_api.c) and *)
(* the handlers of src/api.  Everything here is a function of the request, *)
(* of pn->programs and of the set of instances that kill() reaches.        *)
(*                                                                         *)
(* A string is a sequence of pieces, cut so that a name, the beginning of  *)
(* it and the empty string can be told apart.  A reply is the sequence of  *)
(* the msgpack headers and scalars in the order they are packed.           *)
(***************************************************************************)
EXTENDS Integers, SequencesExt

CONSTANTS
  Programs,   \* pn->programs: a sequence of [name, nprocs, args_len]
  IntBits     \* the width of the integer an instance number is read into

ASSUME ApiAssumption ==
  /\ Programs \in Seq([name : Seq(STRING), nprocs : Nat, args_len : Nat])
  /\ IntBits \in Nat \ {0}

\* The names of fields and methods.
request  == <<"r", "equest">>
program  == <<"p", "rogram">>
instance == <<"i", "nstance">>
command  == <<"c", "ommand">>

dance   == <<"d", "ance">>
restart == <<"r", "estart">>
status  == <<"s", "tatus">>
create  == <<"c", "reate">>

Instances == UNION {{p} \X (0 .. Programs[p].nprocs - 1) : p \in DOMAIN Programs}

(* strncmp(string, start, the length of start) = 0                          *)
Begins(string, start) == IsPrefix(start, string)

-----------------------------------------------------------------------------
(* Requests.  A map is the sequence of its entries, in the order sent.      *)
Map(entries) == [kind |-> "map", entries |-> entries]
NotAMap == [kind |-> "array", entries |-> <<>>]

RawField(key, s)  == [key |-> key, raw |-> s]
UintField(key, n) == [key |-> key, uint |-> n]
IntField(key, n)  == [key |-> key, int |-> n]

(* Where an integer is asked for, an unsigned one is as good.               *)
HasType(entry, type) ==
  type \in DOMAIN entry \/ (type = "int" /\ "uint" \in DOMAIN entry)

Matching(obj, name) == {n \in DOMAIN obj.entries : Begins(name, obj.entries[n].key)}

(* The first entry whose key is the beginning of the name, as a set: empty  *)
(* when there is none, or when it has another type.                         *)
obj_get(obj, name, type) ==
  {obj.entries[n] : n \in
    {k \in Matching(obj, name) :
       /\ \A l \in Matching(obj, name) : k <= l
       /\ HasType(obj.entries[k], type)}}

Got(entries) == entries # {}
The(entries) == CHOOSE e \in entries : TRUE

(* An unsigned number stored where a signed one of IntBits bits is read.    *)
Signed(n) == IF n >= 2 ^ (IntBits - 1) THEN n - 2 ^ IntBits ELSE n

-----------------------------------------------------------------------------
(* Replies.                                                                 *)
MapOf(n)   == [header |-> "map", size |-> n]
ArrayOf(n) == [header |-> "array", size |-> n]
Scalar(s)  == [scalar |-> s]
Number(i)  == [number |-> i]

\* n fields of a map whose values are single objects
Fields(n) == [k \in 1 .. 2 * n |-> Scalar("field")]

\* S[1] \o ... \o S[n]
Concat(S, n) ==
  LET concat[k \in 0 .. n] == IF k = 0 THEN <<>> ELSE concat[k - 1] \o S[k]
  IN concat[n]

(* The objects announced and not packed yet: m before a header or a scalar  *)
(* is packed, then after it; -1 if it is packed after the last of them.     *)
Packed(m, t) ==
  IF m <= 0 THEN -1
  ELSE IF "header" \notin DOMAIN t THEN m - 1
  ELSE (m - 1) + (IF t.header = "map" THEN 2 ELSE 1) * t.size

Missing(m, s) ==
  LET missing[n \in 0 .. Len(s)] == IF n = 0 THEN m ELSE Packed(missing[n - 1], s[n])
  IN missing[Len(s)]

(* A client that unpacks the reply gets one object and nothing is left.     *)
IsOneObject(reply) == Missing(1, reply) = 0

api_respond_error ==
  <<MapOf(2), Scalar("error"), Scalar("why"), Scalar("request"), Scalar("the request")>>

api_request_dance == <<MapOf(1), Scalar("danced"), Scalar("true")>>

-----------------------------------------------------------------------------
(* The programs whose name begins with the string of a field.               *)
Named(field) == {p \in DOMAIN Programs : Begins(Programs[p].name, The(field).raw)}

(* -1 stands for all instances, and so does a field of another type.        *)
InstanceField(obj) ==
  LET got == obj_get(obj, instance, "int")
  IN IF ~Got(got) THEN -1
     ELSE IF "int" \in DOMAIN The(got) THEN The(got).int ELSE Signed(The(got).uint)

(* Mutant: the instances of a program are counted from 1.                   *)
Chosen_FromOne(inst, i) == inst < 0 \/ inst = i + 1

Chosen(inst, i) == inst < 0 \/ inst = i

(* The instances pn_proc_signal is called for.                              *)
RestartTargets(obj) ==
  LET name == obj_get(obj, program, "raw")
  IN {x \in Instances :
        Got(name) /\ x[1] \in Named(name) /\ Chosen(InstanceField(obj), x[2])}

(* Mutant: the header of the results always announces all the instances.    *)
RestartHeader_All(p, inst) == MapOf(Programs[p].nprocs)

RestartHeader(p, inst) == MapOf(IF inst = -1 THEN Programs[p].nprocs ELSE 1)

NotRunning == "process wasn't running"

(* One result per instance: true for those whose recorded pid kill() finds, *)
(* whoever has that pid now.                                                *)
RestartResults(p, inst, reached) ==
  Concat([k \in 1 .. Programs[p].nprocs |->
            LET i == k - 1
            IN IF ~Chosen(inst, i) THEN <<>>
               ELSE <<Number(i), Scalar(IF <<p, i>> \in reached THEN "true" ELSE NotRunning)>>],
         Programs[p].nprocs)

api_request_restart(obj, reached) ==
  LET name == obj_get(obj, program, "raw")
      inst == InstanceField(obj)
  IN IF ~Got(name) THEN api_respond_error
     ELSE <<MapOf(1), Scalar("results")>> \o
          Concat([p \in DOMAIN Programs |->
                    IF p \notin Named(name) THEN <<>>
                    ELSE <<MapOf(1), Scalar("program"), RestartHeader(p, inst)>>
                           \o RestartResults(p, inst, reached)],
                 Len(Programs))

(* Mutant: one of the fields is left out of the count.                      *)
StatusHeader_Short == MapOf(7)

\* command, args, uid, gid, nice, ionice, active, instances
StatusHeader == MapOf(8)

ProgramStatus(p) ==
  LET n == Programs[p].nprocs
  IN <<Scalar("program"), StatusHeader>>
     \o Fields(1)
     \o <<Scalar("args"), ArrayOf(Programs[p].args_len)>>
     \o [k \in 1 .. Programs[p].args_len |-> Scalar("arg")]
     \o Fields(5)
     \o <<Scalar("instances"), MapOf(n)>>
     \o Concat([k \in 1 .. n |-> <<Number(k - 1), MapOf(5)>> \o Fields(5)], n)

(* Without a program field every program is reported.  The header always    *)
(* announces them all.                                                      *)
api_request_status(obj) ==
  LET name == obj_get(obj, program, "raw")
  IN <<MapOf(1), Scalar("programs"), MapOf(Len(Programs))>> \o
     Concat([p \in DOMAIN Programs |->
               IF Got(name) /\ p \notin Named(name) THEN <<>>
               ELSE ProgramStatus(p)],
            Len(Programs))

(* The program it starts is not in pn->programs; see Supervisor.            *)
api_request_create(obj) ==
  IF Got(obj_get(obj, program, "raw")) /\ Got(obj_get(obj, command, "raw"))
  THEN <<Scalar("created")>> ELSE api_respond_error

-----------------------------------------------------------------------------
(* The first method whose name begins with what was asked for.              *)
Method(obj) ==
  LET asked == obj_get(obj, request, "raw")
      is(m) == Got(asked) /\ Begins(m, The(asked).raw)
  IN IF is(dance) THEN dance
     ELSE IF is(restart) THEN restart
     ELSE IF is(status) THEN status
     ELSE IF is(create) THEN create ELSE <<>>

(* What rpc_handle packs for a request that was unpacked.                   *)
rpc_reply(obj, reached) ==
  CASE Method(obj) = dance   -> api_request_dance
    [] Method(obj) = restart -> api_request_restart(obj, reached)
    [] Method(obj) = status  -> api_request_status(obj)
    [] Method(obj) = create  -> api_request_create(obj)
    [] OTHER                 -> api_respond_error

(* The instances whose recorded pid a request sends SIGTERM to.             *)
Terminated(obj, reached) ==
  IF Method(obj) = restart THEN RestartTargets(obj) \cap reached ELSE {}
=============================================================================
