--------------------------- MODULE ChildIOProofs ---------------------------
(***************************************************************************)
(* Proofs about ChildIO: for any number of instances, runs, descriptors,   *)
(* addresses and chunks, the descriptor table, the watchers, the pipes and *)
(* the slots of the instances agree in every reachable state.              *)
(***************************************************************************)
EXTENDS ChildIO, Induction

(* A finite set of numbers has an element that n - 1 others are less than,  *)
(* for every n up to its size: the kernel's row of free descriptors.        *)
LEMMA NthLeast ==
  ASSUME NEW S \in SUBSET Nat, IsFiniteSet(S)
  PROVE  \A n \in 1 .. Cardinality(S) :
           \E f \in S : Cardinality({g \in S : g < f}) = n - 1
<1> DEFINE Below(f) == {g \in S : g < f}
           Found == {n \in Nat : n + 1 <= Cardinality(S) =>
                                   \E f \in S : Cardinality(Below(f)) = n}
<1>0. Cardinality(S) \in Nat
  BY FS_CardinalityType
<1>1. 0 \in Found
  <2> SUFFICES ASSUME 1 <= Cardinality(S) PROVE \E f \in S : Cardinality(Below(f)) = 0
    OBVIOUS
  <2>1. S # {}
    BY FS_EmptySet
  <2>2. PICK f \in S : \A y \in S : f <= y
    BY <2>1, LeastNumber
  <2>3. \A y \in S : ~ (y < f)
    BY <2>2
  <2>4. Below(f) = {}
    BY <2>3
  <2> QED
    BY <2>4, FS_EmptySet
<1>2. ASSUME NEW n \in Nat, n \in Found PROVE n + 1 \in Found
  <2> SUFFICES ASSUME n + 1 + 1 <= Cardinality(S)
               PROVE  \E f \in S : Cardinality(Below(f)) = n + 1
    OBVIOUS
  <2>1. PICK f \in S : Cardinality(Below(f)) = n
    BY <1>0, <1>2
  <2> DEFINE Upto == Below(f) \cup {f}
  <2>2. IsFiniteSet(Below(f)) /\ f \notin Below(f)
    BY FS_Subset
  <2>3. IsFiniteSet(Upto) /\ Cardinality(Upto) = n + 1
    BY <2>1, <2>2, FS_AddElement
  <2>4. S \ Upto # {}
    <3> SUFFICES ASSUME S \subseteq Upto PROVE FALSE
      OBVIOUS
    <3>1. S = Upto
      OBVIOUS
    <3> HIDE DEF Upto
    <3> QED
      BY <1>0, <2>3, <3>1
  <2>5. PICK h \in S \ Upto : \A y \in S \ Upto : h <= y
    BY <2>4, LeastNumber
  <2>6. Upto \subseteq S /\ \A y \in S : y < h <=> y \in Upto
    BY <2>5
  <2>7. Below(h) = Upto
    <3> HIDE DEF Upto
    <3> QED
      BY <2>6
  <2> QED
    BY <2>3, <2>5, <2>7
<1> HIDE DEF Found
<1>3. \A n \in Nat : n \in Found
  BY <1>1, <1>2, Induction
<1> QED
  <2> SUFFICES ASSUME NEW n \in 1 .. Cardinality(S)
               PROVE  \E f \in S : Cardinality(Below(f)) = n - 1
    OBVIOUS
  <2>1. n - 1 \in Found /\ n - 1 \in Nat /\ n - 1 + 1 <= Cardinality(S)
    BY <1>0, <1>3
  <2> QED
    BY <2>1 DEF Found

(* With six descriptors free the two the daemon keeps of a row of six are   *)
(* free ones, and they differ.                                              *)
LEMMA PipeFdsAreFree ==
  ASSUME Cardinality(FreeFds) >= 6
  PROVE  /\ PipeFds \in [Streams -> FreeFds]
         /\ PipeFds["stdout"] # PipeFds["stderr"]
<1>1. FreeFds \in SUBSET Nat /\ IsFiniteSet(FreeFds) /\ Cardinality(FreeFds) \in Nat
  <2>1. IsFiniteSet(Fds)
    BY CapacityAssumption, FS_Interval DEF Fds
  <2>2. FreeFds \in SUBSET Fds /\ Fds \subseteq Nat
    BY CapacityAssumption DEF FreeFds, Fds
  <2> QED
    BY <2>1, <2>2, FS_Subset, FS_CardinalityType
<1>2. ASSUME NEW n \in 1 .. 6
      PROVE  /\ NthFree(n) \in FreeFds
             /\ Cardinality({g \in FreeFds : g < NthFree(n)}) = n - 1
  <2>1. n \in 1 .. Cardinality(FreeFds)
    BY <1>1
  <2>2. \E f \in FreeFds : Cardinality({g \in FreeFds : g < f}) = n - 1
    BY <1>1, <2>1, NthLeast
  <2> QED
    BY <2>2 DEF NthFree
<1>3. NthFree(3) \in FreeFds /\ NthFree(5) \in FreeFds /\ NthFree(3) # NthFree(5)
  BY <1>2
<1> QED
  BY <1>3 DEF PipeFds, Streams

-----------------------------------------------------------------------------
LEMMA InitInv == Init => IInv
<1> SUFFICES ASSUME Init PROVE IInv
  OBVIOUS
<1>0. 0 \in 0 .. MaxRuns /\ 0 \in 0 .. Capacity
  BY CapacityAssumption
<1>1. TypeOK
  BY <1>0 DEF Init, TypeOK, AnyRoute
<1>2. WatchersOwnFds
  BY DEF Init, WatchersOwnFds
<1>3. ClosedWhenDry /\ SlotsAreCurrent
  BY DEF Init, ClosedWhenDry, SlotsAreCurrent, Started, Pipe, Runs
<1> QED
  BY <1>1, <1>2, <1>3 DEF IInv

(* NoPipe is not a pipe: an open descriptor is one that leads to a pipe.    *)
LEMMA NoPipeIsNone == NoPipe \notin Pipe
<1>1. DOMAIN NoPipe = {"proc"} /\ \A k \in Pipe : "run" \in DOMAIN k
  BY DEF NoPipe, Pipe
<1> QED
  BY <1>1

(* A watcher's descriptor leads to a pipe.                                  *)
LEMMA WatchedPipe ==
  ASSUME TypeOK, WatchersOwnFds, NEW w \in io
  PROVE  w.fd \in Fds /\ w.at \in Addrs /\ fds[w.fd] \in Pipe
BY DEF TypeOK, WatchersOwnFds, Watcher

(* The processes do not come by a descriptor that was closed everywhere: a  *)
(* pipe nobody could write to stays one.                                    *)
LEMMA NoNewWriters ==
  ASSUME \A k \in Pipe : holders[k] = {} => holders'[k] = {}, route' = route,
         NEW k \in Pipe, Writers(k) = {}
  PROVE  Writers(k)' = {}
<1>1. [k EXCEPT !.stream = "stderr"] \in Pipe
  BY DEF Pipe, Streams
<1> QED
  BY <1>1 DEF Writers

(* What the processes do: they come and go and print, but the daemon's      *)
(* table, watchers and slots are not theirs.                                *)
LEMMA ProcessesInv ==
  ASSUME IInv, UNCHANGED <<run, route, fds, io, child_io, reading>>, TypeOK',
         \A k \in Pipe : holders[k] = {} => holders'[k] = {},
         \A k \in Pipe : buffer'[k] = buffer[k] \/ Open(k)
  PROVE  IInv'
<1>1. WatchersOwnFds' /\ SlotsAreCurrent'
  BY DEF IInv, WatchersOwnFds, SlotsAreCurrent, Started
<1>2. ClosedWhenDry'
  <2> SUFFICES ASSUME NEW k \in Pipe, Started(k)', ~Open(k)'
               PROVE  (buffer[k] = 0)' /\ Writers(k)' = {}
    BY DEF ClosedWhenDry
  <2>1. Started(k) /\ ~Open(k)
    BY DEF Started, Open
  <2>2. buffer[k] = 0 /\ Writers(k) = {} /\ buffer'[k] = buffer[k]
    BY <2>1 DEF IInv, ClosedWhenDry
  <2> QED
    BY <2>2, NoNewWriters
<1> QED
  BY <1>1, <1>2 DEF IInv

LEMMA WritesInv ==
  ASSUME IInv, NEW k \in Pipe, ProcessWrites(k)
  PROVE  IInv'
<1>1. PICK p \in Pipe : /\ \E f \in Fds : fds[f] = p
                        /\ buffer[p] < Capacity
                        /\ buffer' = [buffer EXCEPT ![p] = @ + 1]
  BY DEF ProcessWrites
<1>2. UNCHANGED <<run, up, route, holders, fds, io, child_io, reading>>
  BY DEF ProcessWrites
<1>3. buffer' \in [Pipe -> 0 .. Capacity]
  BY <1>1, CapacityAssumption DEF IInv, TypeOK
<1>4. TypeOK'
  BY <1>2, <1>3 DEF IInv, TypeOK
<1>5. \A q \in Pipe : buffer'[q] = buffer[q] \/ Open(q)
  BY <1>1 DEF IInv, TypeOK, Open
<1> QED
  BY <1>2, <1>4, <1>5, ProcessesInv

LEMMA ForksInv ==
  ASSUME IInv, NEW i \in Instances, ChildForks(i)
  PROVE  IInv'
<1>1. /\ \A k \in Pipe : holders[k] = {} => holders'[k] = {}
      /\ holders' \in [Pipe -> SUBSET {"child", "heir"}]
  BY DEF ChildForks, IInv, TypeOK
<1>2. UNCHANGED <<run, up, route, buffer, fds, io, child_io, reading>>
  BY DEF ChildForks
<1>3. TypeOK'
  BY <1>1, <1>2 DEF IInv, TypeOK
<1> QED
  BY <1>1, <1>2, <1>3, ProcessesInv

LEMMA ClosesInv ==
  ASSUME IInv, NEW k \in Pipe, NEW who \in {"child", "heir"}, ProcessCloses(k, who)
  PROVE  IInv'
<1>1. /\ \A q \in Pipe : holders[q] = {} => holders'[q] = {}
      /\ holders' \in [Pipe -> SUBSET {"child", "heir"}]
  BY DEF ProcessCloses, IInv, TypeOK
<1>2. UNCHANGED <<run, up, route, buffer, fds, io, child_io, reading>>
  BY DEF ProcessCloses
<1>3. TypeOK'
  BY <1>1, <1>2 DEF IInv, TypeOK
<1> QED
  BY <1>1, <1>2, <1>3, ProcessesInv

LEMMA ExitsInv ==
  ASSUME IInv, NEW i \in Instances, ChildExits(i)
  PROVE  IInv'
<1>1. /\ \A q \in Pipe : holders[q] = {} => holders'[q] = {}
      /\ holders' \in [Pipe -> SUBSET {"child", "heir"}]
  BY DEF ChildExits, IInv, TypeOK
<1>2. UNCHANGED <<run, route, buffer, fds, io, child_io, reading>> /\ up' \subseteq up
  BY DEF ChildExits
<1>3. TypeOK'
  BY <1>1, <1>2 DEF IInv, TypeOK
<1> QED
  BY <1>1, <1>2, <1>3, ProcessesInv

-----------------------------------------------------------------------------
(* child_io_cb is entered and left; what it reads was in an open pipe.      *)
LEMMA CallbackInv ==
  ASSUME IInv, UNCHANGED <<run, up, route, holders, fds, io, child_io>>,
         reading' \in io \cup {NULL}, buffer' \in [Pipe -> 0 .. Capacity],
         \A k \in Pipe : buffer'[k] = buffer[k] \/ Open(k)
  PROVE  IInv'
<1>1. TypeOK'
  BY DEF IInv, TypeOK
<1>2. WatchersOwnFds' /\ SlotsAreCurrent'
  BY DEF IInv, WatchersOwnFds, SlotsAreCurrent, Started
<1>3. ClosedWhenDry'
  BY DEF IInv, ClosedWhenDry, Started, Open, Writers
<1> QED
  BY <1>1, <1>2, <1>3 DEF IInv

LEMMA PublishInv ==
  ASSUME IInv, publish_output
  PROVE  IInv'
<1> DEFINE k == fds[reading.fd]
<1>1. reading \in io /\ k \in Pipe /\ Open(k)
  BY WatchedPipe DEF publish_output, IInv, TypeOK, Open
<1>2. buffer[k] > 0 /\ buffer' = [buffer EXCEPT ![k] = @ - 1]
  BY DEF publish_output
<1>3. UNCHANGED <<run, up, route, holders, fds, io, child_io, reading>>
  BY DEF publish_output
<1> HIDE DEF k
<1>4. buffer' \in [Pipe -> 0 .. Capacity] /\ \A q \in Pipe : buffer'[q] = buffer[q] \/ Open(q)
  BY <1>1, <1>2, CapacityAssumption DEF IInv, TypeOK
<1> QED
  BY <1>1, <1>3, <1>4, CallbackInv

(* The end of a pipe: its descriptor, its watcher and nothing else go.      *)
LEMMA EndOfFileInv ==
  ASSUME IInv, end_of_file
  PROVE  IInv'
<1> DEFINE f == reading.fd
<1>1. /\ reading \in io /\ f \in Fds /\ fds[f] \in Pipe
      /\ \A w \in io : w.fd \in Fds /\ fds[w.fd] \in Pipe
  BY WatchedPipe DEF end_of_file, IInv, TypeOK
<1>2. /\ io' = io \ {reading} /\ fds' = [fds EXCEPT ![f] = NoPipe] /\ reading' = NULL
      /\ UNCHANGED <<run, up, route, holders, buffer, child_io>>
      /\ buffer[fds[f]] = 0 /\ Writers(fds[f]) = {}
  BY DEF end_of_file
<1>3. \A w \in io : w.fd = f => w = reading
  BY <1>1 DEF IInv, WatchersOwnFds
<1> HIDE DEF f
<1>4. fds' \in [Fds -> Pipe \cup {NoPipe}]
  BY <1>2 DEF IInv, TypeOK
<1>5. fds'[f] = NoPipe /\ \A g \in Fds \ {f} : fds'[g] = fds[g]
  BY <1>1, <1>2 DEF IInv, TypeOK
<1>6. TypeOK'
  BY <1>2, <1>4 DEF IInv, TypeOK
<1>7. \A w \in io' : w \in io /\ w.fd \in Fds \ {f} /\ fds'[w.fd] = fds[w.fd]
  BY <1>1, <1>2, <1>3, <1>5
<1>8. WatchersOwnFds'
  <2>1. ASSUME NEW g \in Fds PROVE (fds[g] # NoPipe <=> \E w \in io : w.fd = g)'
    <3>1. CASE g = f
      BY <1>5, <1>7, <3>1
    <3>2. CASE g # f
      <4>1. fds[g] # NoPipe <=> \E w \in io : w.fd = g
        BY DEF IInv, WatchersOwnFds
      <4>2. \A w \in io : w.fd = g => w \in io'
        BY <1>2, <3>2 DEF f
      <4> QED
        BY <1>5, <1>7, <3>2, <4>1, <4>2
    <3> QED
      BY <3>1, <3>2
  <2>2. \A w, v \in io' : w.fd = v.fd \/ w.at = v.at => w = v
    BY <1>7 DEF IInv, WatchersOwnFds
  <2>3. \A w \in io' : w.proc = fds'[w.fd].proc
    BY <1>7 DEF IInv, WatchersOwnFds
  <2>4. \A g, h \in Fds : fds'[g] = fds'[h] /\ fds'[g] # NoPipe => g = h
    BY <1>5 DEF IInv, WatchersOwnFds
  <2> QED
    BY <2>1, <2>2, <2>3, <2>4 DEF WatchersOwnFds
<1>9. ClosedWhenDry'
  <2> SUFFICES ASSUME NEW k \in Pipe, Started(k)', ~Open(k)'
               PROVE  (buffer[k] = 0)' /\ Writers(k)' = {}
    BY DEF ClosedWhenDry
  <2>1. Started(k) /\ (~Open(k) \/ fds[f] = k)
    BY <1>2, <1>5 DEF Started, Open
  <2>2. buffer[k] = 0 /\ Writers(k) = {}
    BY <1>2, <2>1 DEF IInv, ClosedWhenDry
  <2> QED
    BY <1>2, <2>2 DEF Writers
<1>10. SlotsAreCurrent'
  BY <1>2, <1>7 DEF IInv, SlotsAreCurrent, Started
<1> QED
  BY <1>6, <1>8, <1>9, <1>10 DEF IInv

(* A start: two new pipes, two free descriptors that lead to them, two      *)
(* watchers at addresses nobody uses, and the slots of the instance.        *)
LEMMA StartInv ==
  ASSUME IInv, NEW i \in Instances, start_process(i)
  PROVE  IInv'
<1> DEFINE r == run[i] + 1
           k(s) == [proc |-> i, run |-> r, stream |-> s]
           f == PipeFds
           ours(q) == q.proc = i /\ q.run = r
<1>1. PICK a \in [Streams -> FreeAddrs], to \in Routes :
        /\ a["stdout"] # a["stderr"]
        /\ route' = [route EXCEPT ![<<i, r>>] = to]
        /\ io' = io \cup {[at |-> a[s], fd |-> f[s], proc |-> i] : s \in Streams}
        /\ child_io' = [child_io EXCEPT ![i] = a]
  BY DEF start_process, pn_proc_watch_io
<1>2. /\ reading = NULL /\ run[i] < MaxRuns /\ Cardinality(FreeFds) >= 6
      /\ run' = [run EXCEPT ![i] = r] /\ up' = up \cup {i}
      /\ holders' = [x \in Pipe |-> IF x \in {k(s) : s \in Streams}
                                    THEN {"child"} ELSE holders[x]]
      /\ fds' = [x \in Fds |-> IF \E s \in Streams : f[s] = x
                               THEN k(CHOOSE s \in Streams : f[s] = x) ELSE fds[x]]
      /\ UNCHANGED <<buffer, reading>>
  BY DEF start_process
<1>3. r \in Runs /\ run[i] \in Nat /\ run' \in [Instances -> 0 .. MaxRuns]
  BY <1>2, CapacityAssumption DEF IInv, TypeOK, Runs
<1>4. \A s \in Streams : k(s) \in Pipe /\ k(s).proc = i /\ k(s).run = r /\ k(s).stream = s
  BY <1>3 DEF Pipe
<1>5. /\ f["stdout"] \in Fds /\ fds[f["stdout"]] = NoPipe
      /\ f["stderr"] \in Fds /\ fds[f["stderr"]] = NoPipe
      /\ f["stdout"] # f["stderr"]
  BY <1>2, PipeFdsAreFree DEF FreeFds, Streams
<1> HIDE DEF f
<1>6. /\ fds' \in [Fds -> Pipe \cup {NoPipe}]
      /\ fds'[f["stdout"]] = k("stdout") /\ fds'[f["stderr"]] = k("stderr")
      /\ \A g \in Fds : g # f["stdout"] /\ g # f["stderr"] => fds'[g] = fds[g]
  BY <1>2, <1>4, <1>5 DEF IInv, TypeOK, Streams
<1>7. \A s \in Streams : a[s] \in Addrs /\ \A w \in io : w.at # a[s]
  BY DEF FreeAddrs
<1> DEFINE new(s) == [at |-> a[s], fd |-> f[s], proc |-> i]
<1>8. \A s \in Streams : /\ new(s) \in Watcher /\ new(s).at = a[s]
                         /\ new(s).fd = f[s] /\ new(s).proc = i
  BY <1>5, <1>7 DEF Watcher, Streams
<1>9. io' = io \cup {new("stdout"), new("stderr")}
  BY <1>1 DEF Streams
<1>10. ASSUME NEW w \in io
       PROVE  /\ w.fd \in Fds /\ w.fd # f["stdout"] /\ w.fd # f["stderr"]
              /\ fds[w.fd] \in Pipe /\ fds'[w.fd] = fds[w.fd] /\ Started(fds[w.fd])
  BY <1>5, <1>6, WatchedPipe, NoPipeIsNone DEF IInv, SlotsAreCurrent
<1> HIDE DEF k, new
<1>11. TypeOK'
  <2>1. route' \in [Instances \X Runs -> AnyRoute]
    BY <1>1, <1>3, RoutesAssumption DEF IInv, TypeOK
  <2>2. holders' \in [Pipe -> SUBSET {"child", "heir"}]
    BY <1>2 DEF IInv, TypeOK
  <2>3. io' \subseteq Watcher
    BY <1>8, <1>9 DEF IInv, TypeOK, Streams
  <2>4. child_io' \in [Instances -> [Streams -> Addrs \cup {NULL}]]
    <3>1. a \in [Streams -> Addrs \cup {NULL}]
      BY <1>7
    <3> QED
      BY <1>1, <3>1 DEF IInv, TypeOK
  <2> QED
    BY <1>2, <1>3, <1>6, <2>1, <2>2, <2>3, <2>4 DEF IInv, TypeOK
<1>12. WatchersOwnFds'
  <2>1. ASSUME NEW g \in Fds PROVE (fds[g] # NoPipe <=> \E w \in io : w.fd = g)'
    <3>1. CASE g = f["stdout"] \/ g = f["stderr"]
      BY <1>4, <1>6, <1>8, <1>9, <3>1, NoPipeIsNone DEF Streams
    <3>2. CASE g # f["stdout"] /\ g # f["stderr"]
      <4>1. fds'[g] = fds[g] /\ (fds[g] # NoPipe <=> \E w \in io : w.fd = g)
        BY <1>6, <3>2 DEF IInv, WatchersOwnFds
      <4>2. \A w \in io' : w.fd = g => w \in io
        BY <1>8, <1>9, <3>2 DEF Streams
      <4> QED
        BY <1>9, <4>1, <4>2
    <3> QED
      BY <3>1, <3>2
  <2>2. \A w, v \in io' : w.fd = v.fd \/ w.at = v.at => w = v
    <3>1. \A w, v \in io : w.fd = v.fd \/ w.at = v.at => w = v
      BY DEF IInv, WatchersOwnFds
    <3>2. \A w \in io, s \in Streams : w.fd # new(s).fd /\ w.at # new(s).at
      BY <1>7, <1>8, <1>10 DEF Streams
    <3>3. new("stdout").fd # new("stderr").fd /\ new("stdout").at # new("stderr").at
      BY <1>1, <1>5, <1>8 DEF Streams
    <3> QED
      BY <1>9, <3>1, <3>2, <3>3 DEF Streams
  <2>3. \A w \in io' : w.proc = fds'[w.fd].proc
    <3>1. \A w \in io : w.proc = fds'[w.fd].proc
      BY <1>10 DEF IInv, WatchersOwnFds
    <3>2. \A s \in Streams : new(s).proc = fds'[new(s).fd].proc
      BY <1>4, <1>6, <1>8 DEF Streams
    <3> QED
      BY <1>9, <3>1, <3>2 DEF Streams
  <2>4. \A g, h \in Fds : fds'[g] = fds'[h] /\ fds'[g] # NoPipe => g = h
    <3>1. \A g \in Fds : fds[g] # NoPipe => ~ours(fds[g])
      <4> SUFFICES ASSUME NEW g \in Fds, fds[g] # NoPipe PROVE ~ours(fds[g])
        OBVIOUS
      <4>1. PICK w \in io : w.fd = g
        BY DEF IInv, WatchersOwnFds
      <4> QED
        BY <1>3, <1>10, <4>1 DEF Started
    <3>2. ours(k("stdout")) /\ ours(k("stderr")) /\ k("stdout") # k("stderr")
      BY <1>4 DEF Streams
    <3>3. \A g, h \in Fds : fds[g] = fds[h] /\ fds[g] # NoPipe => g = h
      BY DEF IInv, WatchersOwnFds
    <3> HIDE DEF ours
    <3>4. k("stdout") # NoPipe /\ k("stderr") # NoPipe
      BY <1>4, NoPipeIsNone DEF Streams
    <3> QED
      BY <1>6, <3>1, <3>2, <3>3, <3>4
  <2> QED
    BY <2>1, <2>2, <2>3, <2>4 DEF WatchersOwnFds
<1>13. ClosedWhenDry'
  <2> SUFFICES ASSUME NEW q \in Pipe, Started(q)', ~Open(q)'
               PROVE  (buffer[q] = 0)' /\ Writers(q)' = {}
    BY DEF ClosedWhenDry
  <2>1. ~ours(q)
    <3> SUFFICES ASSUME ours(q) PROVE FALSE
      OBVIOUS
    <3>1. q = k("stdout") \/ q = k("stderr")
      BY DEF k, Pipe, Streams
    <3> QED
      BY <1>5, <1>6, <3>1 DEF Open
  <2>2. Started(q)
    <3>1. q.proc \in Instances /\ q.run \in Nat /\ q.run <= run'[q.proc]
      BY CapacityAssumption DEF Started, Pipe, Runs
    <3>2. CASE q.proc = i
      <4>1. run'[i] = r
        BY <1>2 DEF IInv, TypeOK
      <4> QED
        BY <1>3, <2>1, <3>1, <3>2, <4>1 DEF Started
    <3>3. CASE q.proc # i
      <4>1. run'[q.proc] = run[q.proc]
        BY <1>2, <3>1, <3>3 DEF IInv, TypeOK
      <4> QED
        BY <3>1, <4>1 DEF Started
    <3> QED
      BY <3>2, <3>3
  <2>3. ~Open(q)
    <3> SUFFICES ASSUME NEW g \in Fds, fds[g] = q PROVE FALSE
      BY DEF Open
    <3>1. fds'[g] = q
      BY <1>5, <1>6, NoPipeIsNone
    <3> QED
      BY <3>1 DEF Open
  <2>4. buffer[q] = 0 /\ Writers(q) = {}
    BY <2>2, <2>3 DEF IInv, ClosedWhenDry
  <2>5. ASSUME NEW x \in Pipe, ~ours(x)
        PROVE  holders'[x] = holders[x] /\ route'[<<x.proc, x.run>>] = route[<<x.proc, x.run>>]
    <3>1. x \notin {k(s) : s \in Streams}
      BY <1>4, <2>5
    <3>2. <<x.proc, x.run>> \in Instances \X Runs /\ <<x.proc, x.run>> # <<i, r>>
      BY <2>5 DEF Pipe
    <3> QED
      BY <1>1, <1>2, <3>1, <3>2 DEF IInv, TypeOK
  <2> DEFINE e == [q EXCEPT !.stream = "stderr"]
  <2>6. e \in Pipe /\ ~ours(e)
    BY <2>1 DEF Pipe, Streams
  <2>7. Writers(q)' = Writers(q)
    <3>1. holders'[e] = holders[e]
      BY <2>5, <2>6
    <3>2. holders'[q] = holders[q] /\ route'[<<q.proc, q.run>>] = route[<<q.proc, q.run>>]
      BY <2>1, <2>5
    <3> QED
      BY <3>1, <3>2 DEF Writers
  <2> QED
    BY <1>2, <2>4, <2>7
<1>14. SlotsAreCurrent'
  <2> SUFFICES ASSUME NEW w \in io'
               PROVE  /\ Started(fds[w.fd])'
                      /\ \A s \in Streams :
                           (w.at = child_io[fds[w.fd].proc][s] <=>
                              fds[w.fd].run = run[fds[w.fd].proc] /\ fds[w.fd].stream = s)'
    BY DEF SlotsAreCurrent
  <2>1. child_io'[i] = a /\ run'[i] = r
    BY <1>1, <1>2 DEF IInv, TypeOK
  <2>2. \A j \in Instances : j # i => child_io'[j] = child_io[j] /\ run'[j] = run[j]
    BY <1>1, <1>2 DEF IInv, TypeOK
  <2>3. CASE w \in io
    <3> DEFINE q == fds[w.fd]
    <3>1. q \in Pipe /\ q.proc \in Instances /\ fds'[w.fd] = q /\ Started(q)
      BY <1>10, <2>3 DEF Pipe
    <3>2. \A s \in Streams :
            w.at = child_io[q.proc][s] <=> q.run = run[q.proc] /\ q.stream = s
      BY <2>3 DEF IInv, SlotsAreCurrent
    <3> HIDE DEF q
    <3>3. CASE q.proc = i
      <4>1. q.run \in Nat /\ q.run <= run[i] /\ q.run # r
        BY <1>3, <3>1, <3>3 DEF Started, Pipe, Runs
      <4>2. \A s \in Streams : w.at # a[s]
        BY <1>7, <2>3
      <4> QED
        BY <1>3, <2>1, <3>1, <3>3, <4>1, <4>2 DEF Started
    <3>4. CASE q.proc # i
      BY <2>2, <3>1, <3>2, <3>4 DEF Started
    <3> QED
      BY <3>3, <3>4
  <2>4. CASE w \notin io
    <3>1. PICK s \in Streams : w = new(s)
      BY <1>9, <2>4 DEF Streams
    <3>2. fds'[w.fd] = k(s) /\ w.at = a[s]
      BY <1>6, <1>8, <3>1 DEF Streams
    <3>3. \A t \in Streams : a[s] = a[t] <=> s = t
      BY <1>1 DEF Streams
    <3> QED
      BY <1>3, <1>4, <2>1, <3>2, <3>3 DEF Started
  <2> QED
    BY <2>3, <2>4
<1> QED
  BY <1>11, <1>12, <1>13, <1>14 DEF IInv

-----------------------------------------------------------------------------
LEMMA NextInv == IInv /\ [Next]_vars => IInv'
<1> SUFFICES ASSUME IInv, [Next]_vars PROVE IInv'
  OBVIOUS
<1>1. ASSUME NEW i \in Instances, start_process(i) PROVE IInv'
  BY <1>1, StartInv
<1>2. ASSUME NEW i \in Instances, ChildForks(i) PROVE IInv'
  BY <1>2, ForksInv
<1>3. ASSUME NEW i \in Instances, ChildExits(i) PROVE IInv'
  BY <1>3, ExitsInv
<1>4. ASSUME NEW k \in Pipe, ProcessWrites(k) PROVE IInv'
  BY <1>4, WritesInv
<1>5. ASSUME NEW k \in Pipe, NEW who \in {"child", "heir"}, ProcessCloses(k, who)
      PROVE  IInv'
  BY <1>5, ClosesInv
<1>6. ASSUME NEW w \in io, child_io_cb(w) PROVE IInv'
  <2>1. /\ UNCHANGED <<run, up, route, holders, buffer, fds, io, child_io>>
        /\ reading' \in io \cup {NULL}
    BY <1>6 DEF child_io_cb
  <2>2. buffer \in [Pipe -> 0 .. Capacity]
    BY DEF IInv, TypeOK
  <2> QED
    BY <2>1, <2>2, CallbackInv
<1>7. CASE publish_output
  BY <1>7, PublishInv
<1>8. CASE end_of_file
  BY <1>8, EndOfFileInv
<1>9. CASE would_block
  <2>1. /\ UNCHANGED <<run, up, route, holders, buffer, fds, io, child_io>>
        /\ reading' \in io \cup {NULL}
    BY <1>9 DEF would_block
  <2>2. buffer \in [Pipe -> 0 .. Capacity]
    BY DEF IInv, TypeOK
  <2> QED
    BY <2>1, <2>2, CallbackInv
<1>10. CASE UNCHANGED vars
  <2>1. /\ UNCHANGED <<run, up, route, holders, buffer, fds, io, child_io>>
        /\ reading' \in io \cup {NULL} /\ buffer' \in [Pipe -> 0 .. Capacity]
    BY <1>10 DEF vars, IInv, TypeOK
  <2> QED
    BY <2>1, CallbackInv
<1> QED
  BY <1>1, <1>2, <1>3, <1>4, <1>5, <1>6, <1>7, <1>8, <1>9, <1>10 DEF Next

(* The tables of the daemon agree with each other and with the pipes in     *)
(* every reachable state.                                                   *)
THEOREM RelayInvariance == Spec => []IInv
<1>1. Init => IInv
  BY InitInv
<1>2. IInv /\ [Next]_vars => IInv'
  BY NextInv
<1> QED
  BY <1>1, <1>2, PTL DEF Spec

(* Every open descriptor has exactly one watcher, of the instance whose     *)
(* pipe it is, although descriptors and addresses are reused.               *)
THEOREM WatchersOwn == Spec => []WatchersOwnFds
<1>1. IInv => WatchersOwnFds
  BY DEF IInv
<1> QED
  BY <1>1, RelayInvariance, PTL

(* A pipe is closed only when it is empty and nobody can write to it.       *)
THEOREM NoOutputLost == Spec => []ClosedWhenDry
<1>1. IInv => ClosedWhenDry
  BY DEF IInv
<1> QED
  BY <1>1, RelayInvariance, PTL

(* What is read is announced by the name of the pipe it came by if it is    *)
(* the current run's, and never as the current run's if it is not.          *)
THEOREM OutputIsNamed == Spec => []SourceIsThePipe
<1>1. IInv => SourceIsThePipe
  <2> SUFFICES ASSUME IInv, reading # NULL
               PROVE  ioname(reading) = IF fds[reading.fd].run = run[fds[reading.fd].proc]
                                        THEN fds[reading.fd].stream ELSE "unknown"
    BY DEF SourceIsThePipe
  <2> DEFINE k == fds[reading.fd]
  <2>1. reading \in io /\ k \in Pipe /\ reading.proc = k.proc
    BY WatchedPipe DEF IInv, TypeOK, WatchersOwnFds
  <2>2. \A s \in Streams :
          reading.at = child_io[k.proc][s] <=> k.run = run[k.proc] /\ k.stream = s
    BY <2>1 DEF IInv, SlotsAreCurrent
  <2>3. k.stream \in Streams
    BY <2>1 DEF Pipe
  <2> HIDE DEF k
  <2>4. ioname(reading) = IF k.run = run[k.proc] THEN k.stream ELSE "unknown"
    BY <2>1, <2>2, <2>3 DEF ioname, Streams
  <2> QED
    BY <2>4 DEF k
<1> QED
  BY <1>1, RelayInvariance, PTL
=============================================================================
