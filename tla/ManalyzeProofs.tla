---------------------------- MODULE ManalyzeProofs ----------------------------
(***************************************************************************)
(* Proofs about the main program and the register of plugins: for every    *)
(* number of files and every interval between two flushes, and for all     *)
(* libraries and ids of plugins.                                           *)
(***************************************************************************)
EXTENDS Manalyze, SequenceTheorems, FiniteSetTheorems, TLAPS

-------------------------------------------------------------------------------
(* The register of plugins and the libraries.                              *)

\* A local variable, and an entry of the register.
LocalName == {"lib", "plugin", "test", "loaded_plugins", "plugins"}
LocalVariable == [name : LocalName, libs : SUBSET Library]
Entry == [id : Id, lib : SUBSET Library]

RegTypes ==
    /\ todo \subseteq Library /\ open \subseteq Library /\ history \subseteq Library
    /\ plugins \in Seq(Entry)
    /\ locals \in Seq(LocalVariable)
    /\ at \in {"idle", "symbols", "version", "compare", "return"}
    /\ at \in {"version", "compare"} => test_id \in Id

\* The library that load is about, if it is running.
LoadingOf(s) == UNION {s[k].libs : k \in {j \in DOMAIN s : s[j].name = "lib"}}
Loading == LoadingOf(locals)

\* Of the local variables of load the first one is lib, and it is the only one.
IsFirst(s) == \A k \in DOMAIN s : s[k].name = "lib" <=> k = 1
LibraryFirst == IsFirst(locals)

\* The inductive invariant.  While plugins are loaded, the open libraries are those of
\* the entries and the one load is about; afterwards they are those of the entries,
\* which do not change before the end.  Local variables only have libraries that are
\* open, and a function that has returned has none.
RegParts ==
    /\ \A k \in DOMAIN locals : locals[k].libs \subseteq open
    /\ phase = "load" =>
           /\ LibraryFirst
           /\ open = Registry!Instances \cup Loading
           /\ at \in {"symbols", "version", "compare"} => locals # <<>>
           /\ at = "idle" => locals = <<>>
    /\ phase # "load" => at = "idle" /\ open = Registry!Instances
    /\ phase \notin {"load", "analysis", "aborted"} => locals = <<>>
    /\ phase # "exited" => history \subseteq Registry!Instances
    /\ \A j, k \in DOMAIN plugins :
           (j < k /\ plugins[k].lib # {}) => plugins[j].id # plugins[k].id
    /\ phase \in {"load", "args", "unload", "exited"} => root = <<>>

RegInv == RegTypes /\ RegParts

\* RegInv is true when main() starts: the static plugins have no library.
LEMMA RegInit ==
    ASSUME Init
    PROVE  RegInv
  <1>1. /\ todo \in {{}, Library} /\ at = "idle" /\ locals = <<>> /\ open = {} /\ history = {}
        /\ phase = "load" /\ root = <<>>
        /\ plugins = [k \in DOMAIN StaticId |-> [id |-> StaticId[k], lib |-> {}]]
    BY DEF Init, Registry!Init
  <1>2. PICK n \in Nat : n = Len(StaticId) /\ DOMAIN StaticId = 1..n
    BY RegistryAssumption
  <1>3. plugins \in [1..n -> Entry]
    BY <1>1, <1>2, RegistryAssumption DEF Entry
  <1>4. plugins \in Seq(Entry)
    BY <1>3, SeqDef, Zenon
  <1>5. \A k \in DOMAIN plugins : plugins[k].lib = {}
    BY <1>1
  <1>6. Registry!Instances = {} /\ Loading = {} /\ LibraryFirst
    <2>1. DOMAIN locals = {}
      BY <1>1
    <2> QED
      BY <1>5, <2>1 DEF Registry!Instances, Loading, LoadingOf, LibraryFirst, IsFirst
  <1> QED
    BY <1>1, <1>4, <1>5, <1>6 DEF RegInv, RegTypes, RegParts

\* What RegParts says does not depend on the entries one by one, but on these.
LEMMA RegSame ==
    ASSUME UNCHANGED plugins
    PROVE  Registry!Instances' = Registry!Instances
  BY DEF Registry!Instances

\* What a local variable is.
LEMMA LocalTyped ==
    ASSUME NEW n \in LocalName, NEW L, L \subseteq Library
    PROVE  /\ Registry!Local(n, L) \in LocalVariable
           /\ Registry!Local(n, L).name = n /\ Registry!Local(n, L).libs = L
  <1>1. L \in SUBSET Library
    OBVIOUS
  <1>2. [name |-> n, libs |-> L] \in [name : LocalName, libs : SUBSET Library]
    BY <1>1
  <1> QED
    BY <1>2 DEF Registry!Local, LocalVariable

\* A library is opened, or it cannot be.
LEMMA RegOpen ==
    ASSUME RegInv, phase = "load", UNCHANGED <<phase, root>>,
           Registry!OpenLibrary \/ Registry!OpenFails
    PROVE  RegInv'
  <1>1. at = "idle" /\ UNCHANGED <<test_id, plugins, history>> /\ locals = <<>>
    BY DEF Registry!OpenLibrary, Registry!OpenFails, RegInv, RegParts
  <1>2. Registry!Instances' = Registry!Instances
    BY <1>1, RegSame
  <1>3. CASE Registry!OpenLibrary
    <2>1. PICK l \in todo : /\ todo' = todo \ {l} /\ open' = open \cup {l}
                            /\ locals' = <<Registry!Local("lib", {l})>> /\ at' = "symbols"
      BY <1>3 DEF Registry!OpenLibrary
    <2>2. l \in Library
      BY <2>1 DEF RegInv, RegTypes
    <2>3. /\ DOMAIN locals' = {1} /\ locals'[1].libs = {l} /\ locals'[1].name = "lib"
          /\ locals' \in Seq(LocalVariable) /\ locals' # <<>>
      <3>0. {l} \subseteq Library /\ "lib" \in LocalName
        BY <2>2 DEF LocalName
      <3>a. /\ Registry!Local("lib", {l}) \in LocalVariable
            /\ Registry!Local("lib", {l}).libs = {l} /\ Registry!Local("lib", {l}).name = "lib"
        BY <3>0, LocalTyped, Zenon
      <3>1. PICK v \in LocalVariable : v = Registry!Local("lib", {l}) /\ v.libs = {l} /\ v.name = "lib"
        BY <3>a, Zenon
      <3>2. locals' = <<v>>
        BY <2>1, <3>1
      <3>3. DOMAIN <<v>> = {1} /\ <<v>>[1] = v /\ <<v>> \in Seq(LocalVariable) /\ <<v>> # <<>>
        OBVIOUS
      <3> QED
        BY <3>1, <3>2, <3>3
    <2>4. Loading' = {l} /\ Loading = {} /\ LibraryFirst'
      <3>1. Loading' = {l}
        BY <2>3, Zenon DEF Loading, LoadingOf
      <3>2. DOMAIN locals = {}
        BY <1>1
      <3> QED
        BY <2>3, <3>1, <3>2 DEF Loading, LoadingOf, LibraryFirst, IsFirst
    <2>5. RegTypes'
      BY <1>1, <2>1, <2>2, <2>3 DEF RegInv, RegTypes
    <2> QED
      BY <1>1, <1>2, <2>1, <2>3, <2>4, <2>5 DEF RegInv, RegParts
  <1>4. CASE Registry!OpenFails
    <2>1. UNCHANGED <<at, locals, open>> /\ \E l \in todo : todo' = todo \ {l}
      BY <1>4 DEF Registry!OpenFails
    <2>2. Loading' = Loading /\ LibraryFirst'
      BY <2>1 DEF Loading, LoadingOf, LibraryFirst, IsFirst, RegInv, RegParts
    <2>3. RegTypes'
      BY <1>1, <2>1 DEF RegInv, RegTypes
    <2> QED
      BY <1>1, <1>2, <2>1, <2>2, <2>3 DEF RegInv, RegParts
  <1> QED
    BY <1>3, <1>4

\* Local variables are added behind those that are there.
LEMMA RegAddLocals ==
    ASSUME RegInv, locals # <<>>, LibraryFirst,
           NEW s \in Seq(LocalVariable),
           \A k \in DOMAIN s : s[k].name # "lib" /\ s[k].libs \subseteq open,
           NEW t, t = locals \o s
    PROVE  /\ t \in Seq(LocalVariable) /\ t # <<>>
           /\ \A k \in DOMAIN t : (t[k].name = "lib" <=> k = 1) /\ t[k].libs \subseteq open
           /\ t[1] = locals[1]
  <1>1. locals \in Seq(LocalVariable)
    BY DEF RegInv, RegTypes
  <1>2. PICK n \in Nat, m \in Nat : n = Len(locals) /\ m = Len(s) /\ n > 0
    BY <1>1
  <1>3. DOMAIN locals = 1..n /\ DOMAIN s = 1..m
    BY <1>1, <1>2
  <1>4. /\ t \in Seq(LocalVariable) /\ Len(t) = n + m
        /\ \A i \in 1..(n + m) : t[i] = IF i <= n THEN locals[i] ELSE s[i - n]
    BY <1>1, <1>2, ConcatProperties
  <1>5. DOMAIN t = 1..(n + m) /\ t # <<>>
    BY <1>2, <1>4
  <1>6. ASSUME NEW k \in 1..(n + m)
        PROVE  (t[k].name = "lib" <=> k = 1) /\ t[k].libs \subseteq open
    <2>1. CASE k <= n
      <3>1. t[k] = locals[k] /\ k \in DOMAIN locals
        BY <1>3, <1>4, <2>1
      <3> QED
        BY <3>1 DEF LibraryFirst, IsFirst, RegInv, RegParts
    <2>2. CASE ~(k <= n)
      <3>1. t[k] = s[k - n] /\ k - n \in DOMAIN s /\ k # 1
        BY <1>2, <1>3, <1>4, <2>2
      <3> QED
        BY <3>1
    <2> QED
      BY <2>1, <2>2
  <1>7. t[1] = locals[1]
    BY <1>2, <1>4
  <1> QED
    BY <1>4, <1>5, <1>6, <1>7

\* The library that load is about is that of the first local variable.
LEMMA LoadingIsFirst ==
    ASSUME NEW s \in Seq(LocalVariable), IsFirst(s)
    PROVE  /\ s # <<>> => LoadingOf(s) = s[1].libs
           /\ s = <<>> => LoadingOf(s) = {}
  <1>1. PICK n \in Nat : n = Len(s) /\ DOMAIN s = 1..n
    OBVIOUS
  <1>2. CASE s = <<>>
    <2>1. DOMAIN s = {}
      BY <1>2
    <2> QED
      BY <1>2, <2>1 DEF LoadingOf
  <1>3. CASE s # <<>>
    <2>1. n > 0 /\ 1 \in DOMAIN s
      BY <1>1, <1>3
    <2>2. {j \in DOMAIN s : s[j].name = "lib"} = {1}
      BY <2>1, Zenon DEF IsFirst
    <2> QED
      BY <1>3, <2>2, Zenon DEF LoadingOf
  <1> QED
    BY <1>2, <1>3

\* The test instance and the other plugins are made: all of them have a library that
\* is open.
LEMMA RegInstances ==
    ASSUME RegInv, phase = "load", UNCHANGED <<phase, root>>,
           Registry!Instantiate \/ Registry!GetPlugins
    PROVE  RegInv'
  <1>1. /\ UNCHANGED <<todo, plugins, open, history>>
        /\ locals # <<>> /\ LibraryFirst /\ open = Registry!Instances \cup Loading
        /\ locals \in Seq(LocalVariable)
        /\ at' \in {"version", "compare"} /\ test_id' \in Id
    BY DEF Registry!Instantiate, Registry!GetPlugins, RegInv, RegParts, RegTypes
  <1>2. Registry!Instances' = Registry!Instances
    BY <1>1, RegSame
  <1>3. Loading = Registry!Current /\ Registry!Current \subseteq Library /\ Registry!Current \subseteq open
        /\ Registry!Instances \subseteq Library /\ Registry!Instances \subseteq open
        /\ {} \subseteq Library
    <2>1. Loading = Registry!Current
      BY <1>1, LoadingIsFirst DEF Loading, LibraryFirst, Registry!Current
    <2> QED
      BY <1>1, <2>1 DEF RegInv, RegTypes
  <1>4. PICK s \in Seq(LocalVariable) :
            /\ locals' = locals \o s
            /\ \A k \in DOMAIN s : s[k].name # "lib" /\ s[k].libs \subseteq open
    <2>1. CASE Registry!Instantiate
      <3>1. "plugin" \in LocalName /\ "test" \in LocalName
        BY DEF LocalName
      <3>2. /\ Registry!Local("plugin", {}) \in LocalVariable
            /\ Registry!Local("plugin", {}).libs = {} /\ Registry!Local("plugin", {}).name = "plugin"
        BY <1>3, <3>1, LocalTyped, Zenon
      <3>3. /\ Registry!Local("test", Registry!Current) \in LocalVariable
            /\ Registry!Local("test", Registry!Current).libs = Registry!Current
            /\ Registry!Local("test", Registry!Current).name = "test"
        BY <1>3, <3>1, LocalTyped, Zenon
      <3>4. PICK v \in LocalVariable : v = Registry!Local("plugin", {}) /\ v.libs = {} /\ v.name = "plugin"
        BY <3>2, Zenon
      <3>5. PICK w \in LocalVariable : /\ w = Registry!Local("test", Registry!Current)
                                       /\ w.libs = Registry!Current /\ w.name = "test"
        BY <3>3, Zenon
      <3>6. locals' = locals \o <<v, w>>
        BY <2>1, <3>4, <3>5 DEF Registry!Instantiate
      <3>7. /\ <<v, w>> \in Seq(LocalVariable) /\ DOMAIN <<v, w>> = {1, 2}
            /\ <<v, w>>[1] = v /\ <<v, w>>[2] = w
        OBVIOUS
      <3>8. \A k \in DOMAIN <<v, w>> : <<v, w>>[k].name # "lib" /\ <<v, w>>[k].libs \subseteq open
        BY <1>3, <3>4, <3>5, <3>7
      <3> QED
        BY <3>6, <3>7, <3>8
    <2>2. CASE Registry!GetPlugins
      <3>1. "loaded_plugins" \in LocalName
        BY DEF LocalName
      <3>2. /\ Registry!Local("loaded_plugins", Registry!Instances) \in LocalVariable
            /\ Registry!Local("loaded_plugins", Registry!Instances).libs = Registry!Instances
            /\ Registry!Local("loaded_plugins", Registry!Instances).name = "loaded_plugins"
        BY <1>3, <3>1, LocalTyped, Zenon
      <3>3. PICK v \in LocalVariable : /\ v = Registry!Local("loaded_plugins", Registry!Instances)
                                       /\ v.libs = Registry!Instances /\ v.name = "loaded_plugins"
        BY <3>2, Zenon
      <3>4. locals' = Append(locals, v)
        BY <2>2, <3>3 DEF Registry!GetPlugins
      <3>5. locals' = locals \o <<v>>
        BY <1>1, <3>4, AppendIsConcat
      <3>6. <<v>> \in Seq(LocalVariable) /\ DOMAIN <<v>> = {1} /\ <<v>>[1] = v
        OBVIOUS
      <3>7. \A k \in DOMAIN <<v>> : <<v>>[k].name # "lib" /\ <<v>>[k].libs \subseteq open
        BY <1>3, <3>3, <3>6
      <3> QED
        BY <3>5, <3>6, <3>7
    <2> QED
      BY <2>1, <2>2
  <1>5. /\ locals' \in Seq(LocalVariable) /\ locals' # <<>>
        /\ \A k \in DOMAIN locals' : (locals'[k].name = "lib" <=> k = 1) /\ locals'[k].libs \subseteq open
        /\ locals'[1] = locals[1]
    BY <1>1, <1>4, RegAddLocals
  <1>6. LibraryFirst' /\ Loading' = Loading
    <2>1. IsFirst(locals')
      BY <1>5 DEF IsFirst
    <2>2. LoadingOf(locals') = locals'[1].libs
      BY <1>5, <2>1, LoadingIsFirst
    <2> QED
      BY <1>3, <1>5, <2>1, <2>2 DEF LibraryFirst, Loading, Registry!Current
  <1>7. RegTypes'
    BY <1>1, <1>5 DEF RegInv, RegTypes
  <1> QED
    BY <1>1, <1>2, <1>5, <1>6, <1>7 DEF RegInv, RegParts

\* load gives up or is over.
LEMMA RegGivesUp ==
    ASSUME RegInv, phase = "load", UNCHANGED <<phase, root>>,
           \/ Registry!NoSymbols \/ Registry!WrongVersion \/ Registry!Refuse
           \/ Registry!Return
    PROVE  RegInv'
  <1>1. /\ UNCHANGED <<todo, locals, plugins, open, history>>
        /\ at' \in {"return", "idle"} /\ (at' = "idle" => locals = <<>>)
    BY DEF Registry!NoSymbols, Registry!WrongVersion, Registry!Refuse, Registry!Return
  <1>2. Registry!Instances' = Registry!Instances /\ Loading' = Loading /\ (LibraryFirst => LibraryFirst')
    BY <1>1, RegSame DEF Loading, LibraryFirst
  <1>3. RegTypes'
    BY <1>1 DEF RegInv, RegTypes
  <1> QED
    BY <1>1, <1>2, <1>3 DEF RegInv, RegParts

\* The register grows by an entry whose id is new.
LEMMA RegRegister ==
    ASSUME RegInv, phase = "load", UNCHANGED <<phase, root>>, Registry!Register
    PROVE  RegInv'
  <1>1. /\ UNCHANGED <<todo, test_id, locals, open>> /\ at = "compare" /\ at' = "return"
        /\ plugins' = Append(plugins, [id |-> test_id, lib |-> Registry!Current])
        /\ history' = history \cup Registry!Current
        /\ ~Registry!LoadedTwice
    BY DEF Registry!Register
  <1>2. /\ plugins \in Seq(Entry) /\ test_id \in Id /\ locals # <<>> /\ LibraryFirst
        /\ open = Registry!Instances \cup Loading /\ history \subseteq Registry!Instances
        /\ locals \in Seq(LocalVariable) /\ open \subseteq Library
    BY <1>1 DEF RegInv, RegParts, RegTypes
  <1>3. Loading = Registry!Current /\ Registry!Current \subseteq Library
    BY <1>2, LoadingIsFirst DEF Loading, LibraryFirst, Registry!Current
  <1>4. Loading' = Loading /\ LibraryFirst'
    BY <1>1, <1>2 DEF Loading, LibraryFirst
  <1>5. PICK e \in Entry : /\ e = [id |-> test_id, lib |-> Registry!Current]
                           /\ e.id = test_id /\ e.lib = Registry!Current
    <2>1. [id |-> test_id, lib |-> Registry!Current] \in Entry
      BY <1>2, <1>3 DEF Entry
    <2> QED
      BY <2>1
  <1>6. PICK n \in Nat : n = Len(plugins) /\ DOMAIN plugins = 1..n
    BY <1>2
  <1>7. /\ plugins' \in Seq(Entry) /\ DOMAIN plugins' = 1..(n + 1)
        /\ \A k \in 1..n : plugins'[k] = plugins[k]
        /\ plugins'[n + 1] = e
    <2>1. plugins' = Append(plugins, e)
      BY <1>1, <1>5
    <2>2. /\ Append(plugins, e) \in Seq(Entry) /\ Len(Append(plugins, e)) = n + 1
          /\ \A k \in 1..n : Append(plugins, e)[k] = plugins[k]
          /\ Append(plugins, e)[n + 1] = e
      BY <1>2, <1>6, AppendProperties
    <2> QED
      BY <2>1, <2>2
  <1>8. Registry!Instances' = Registry!Instances \cup Registry!Current
    <2>1. ASSUME NEW l PROVE l \in Registry!Instances' <=> \E k \in 1..(n + 1) : l \in plugins'[k].lib
      BY <1>7 DEF Registry!Instances
    <2>2. ASSUME NEW l PROVE l \in Registry!Instances <=> \E k \in 1..n : l \in plugins[k].lib
      BY <1>6 DEF Registry!Instances
    <2>3. ASSUME NEW l PROVE l \in Registry!Instances' <=> (l \in Registry!Instances \/ l \in e.lib)
      <3>1. 1..(n + 1) = 1..n \cup {n + 1}
        OBVIOUS
      <3> QED
        BY <1>7, <2>1, <2>2, <3>1, Zenon
    <2> QED
      BY <1>5, <2>3
  <1>9. \A j, k \in DOMAIN plugins' : (j < k /\ plugins'[k].lib # {}) => plugins'[j].id # plugins'[k].id
    <2>1. SUFFICES ASSUME NEW j \in 1..(n + 1), NEW k \in 1..(n + 1), j < k, plugins'[k].lib # {}
                   PROVE  plugins'[j].id # plugins'[k].id
      BY <1>7
    <2>2. CASE k \in 1..n
      <3>1. j \in 1..n
        BY <2>1, <2>2
      <3>2. plugins'[j] = plugins[j] /\ plugins'[k] = plugins[k]
        BY <1>7, <2>2, <3>1
      <3> QED
        BY <1>6, <2>1, <2>2, <3>1, <3>2 DEF RegInv, RegParts
    <2>3. CASE k \notin 1..n
      <3>1. k = n + 1 /\ j \in 1..n
        BY <2>1, <2>3
      <3>2. plugins'[j] = plugins[j] /\ plugins'[k] = e
        BY <1>7, <3>1
      <3> QED
        BY <1>1, <1>5, <1>6, <3>1, <3>2 DEF Registry!LoadedTwice
    <2> QED
      BY <2>2, <2>3
  <1>10. RegTypes'
    <2>1. history' \subseteq Library
      BY <1>1, <1>3 DEF RegInv, RegTypes
    <2> QED
      BY <1>1, <1>7, <2>1 DEF RegInv, RegTypes
  <1>11. /\ open' = Registry!Instances' \cup Loading'
         /\ history' \subseteq Registry!Instances'
    BY <1>1, <1>2, <1>3, <1>4, <1>8
  <1> QED
    BY <1>1, <1>4, <1>9, <1>10, <1>11 DEF RegInv, RegParts

\* load returns: the last local variable goes, and with lib the library unless the
\* register has it.
LEMMA RegDestroy ==
    ASSUME RegInv, phase = "load", UNCHANGED <<phase, root>>, Registry!DestroyLocal
    PROVE  RegInv'
  <1>1. /\ UNCHANGED <<todo, at, test_id, plugins, history>> /\ at = "return" /\ locals # <<>>
        /\ locals' = Registry!Front(locals)
        /\ open' = IF Registry!Last(locals).name = "lib"
                   THEN open \ (Registry!Current \ Registry!Instances) ELSE open
    BY DEF Registry!DestroyLocal
  <1>2. /\ locals \in Seq(LocalVariable) /\ LibraryFirst
        /\ open = Registry!Instances \cup Loading /\ open \subseteq Library
    BY DEF RegInv, RegParts, RegTypes
  <1>3. Loading = Registry!Current
    BY <1>1, <1>2, LoadingIsFirst DEF Loading, LibraryFirst, Registry!Current
  <1>4. Registry!Instances' = Registry!Instances
    BY <1>1, RegSame
  <1>5. PICK n \in Nat : n = Len(locals) /\ n > 0 /\ DOMAIN locals = 1..n
    BY <1>1, <1>2
  <1>6. Registry!Last(locals) = locals[n]
    BY <1>5 DEF Registry!Last
  <1>7. /\ locals' \in Seq(LocalVariable) /\ Len(locals') = n - 1
        /\ \A k \in 1..(n - 1) : locals'[k] = locals[k]
    <2>1. locals' = SubSeq(locals, 1, n - 1)
      BY <1>1, <1>5 DEF Registry!Front
    <2>2. /\ SubSeq(locals, 1, n - 1) \in Seq(LocalVariable)
          /\ Len(SubSeq(locals, 1, n - 1)) = n - 1
          /\ \A k \in 1..(n - 1) : SubSeq(locals, 1, n - 1)[k] = locals[k]
      BY <1>2, <1>5
    <2> QED
      BY <2>1, <2>2
  <1>8. DOMAIN locals' = 1..(n - 1)
    BY <1>5, <1>7
  <1>9. LibraryFirst'
    <2>1. ASSUME NEW k \in 1..(n - 1) PROVE locals'[k].name = "lib" <=> k = 1
      BY <1>2, <1>5, <1>7 DEF LibraryFirst, IsFirst
    <2> QED
      BY <1>8, <2>1 DEF LibraryFirst, IsFirst
  <1>10. CASE n = 1
    <2>1. Registry!Last(locals).name = "lib"
      BY <1>2, <1>5, <1>6, <1>10 DEF LibraryFirst, IsFirst
    <2>2. open' = Registry!Instances
      BY <1>1, <1>2, <1>3, <2>1
    <2>3. locals' = <<>> /\ DOMAIN locals' = {}
      BY <1>7, <1>8, <1>10
    <2>4. Loading' = {}
      BY <1>7, <1>9, <2>3, LoadingIsFirst DEF Loading, LibraryFirst
    <2>5. open' \subseteq Library /\ open' = Registry!Instances' \cup Loading'
      BY <1>2, <1>4, <2>2, <2>4
    <2>6. RegTypes'
      BY <1>1, <1>7, <2>5 DEF RegInv, RegTypes
    <2> QED
      BY <1>1, <1>4, <1>9, <2>3, <2>5, <2>6 DEF RegInv, RegParts
  <1>11. CASE n # 1
    <2>1. Registry!Last(locals).name # "lib"
      BY <1>2, <1>5, <1>6, <1>11 DEF LibraryFirst, IsFirst
    <2>2. open' = open
      BY <1>1, <2>1
    <2>3. locals' # <<>> /\ locals'[1] = locals[1]
      BY <1>5, <1>7, <1>11
    <2>4. Loading' = Loading
      <3>1. Loading' = locals'[1].libs
        BY <1>7, <1>9, <2>3, LoadingIsFirst DEF Loading, LibraryFirst
      <3> QED
        BY <1>3, <2>3, <3>1 DEF Registry!Current
    <2>5. \A k \in DOMAIN locals' : locals'[k].libs \subseteq open'
      <3>1. ASSUME NEW k \in 1..(n - 1) PROVE locals'[k].libs \subseteq open
        BY <1>5, <1>7, SMTT(30) DEF RegInv, RegParts
      <3> QED
        BY <1>8, <2>2, <3>1
    <2>6. RegTypes'
      BY <1>1, <1>7, <2>2 DEF RegInv, RegTypes
    <2> QED
      BY <1>1, <1>2, <1>4, <1>9, <2>2, <2>3, <2>4, <2>5, <2>6 DEF RegInv, RegParts
  <1> QED
    BY <1>10, <1>11

\* main() goes on and leaves the register alone.
LEMMA RegMain ==
    ASSUME RegInv, UNCHANGED <<todo, at, test_id, plugins, open, history>>,
           phase # "load", phase' # "load", phase # "exited" \/ phase' = "exited",
           \/ UNCHANGED locals /\ (phase' \in {"analysis", "aborted"} \/ locals = <<>>)
           \/ locals' = <<>>,
           phase' \in {"args", "unload", "exited"} => root' = <<>>
    PROVE  RegInv'
  <1>1. Registry!Instances' = Registry!Instances
    BY RegSame
  <1>2. locals' \in Seq(LocalVariable) /\ \A k \in DOMAIN locals' : locals'[k].libs \subseteq open
    <2>1. CASE UNCHANGED locals
      BY <2>1 DEF RegInv, RegTypes, RegParts
    <2>2. CASE locals' = <<>>
      <3>1. <<>> \in Seq(LocalVariable) /\ DOMAIN locals' = {}
        BY <2>2
      <3> QED
        BY <2>2, <3>1
    <2> QED
      BY <2>1, <2>2
  <1>3. RegTypes'
    BY <1>2 DEF RegInv, RegTypes
  <1>4. phase' \notin {"load", "analysis", "aborted"} => locals' = <<>>
    OBVIOUS
  <1> QED
    BY <1>1, <1>2, <1>3, <1>4 DEF RegInv, RegParts

\* Every step keeps RegInv.
LEMMA RegStep ==
    ASSUME RegInv, [Next]_vars
    PROVE  RegInv'
  <1>1. CASE LoadPlugins
    <2>1. phase = "load" /\ UNCHANGED <<phase, root>> /\ Registry!Load
      BY <1>1 DEF LoadPlugins, report
    <2> QED
      BY <2>1, RegOpen, RegInstances, RegGivesUp, RegRegister, RegDestroy DEF Registry!Load
  <1>2. CASE PluginsLoaded
    <2>1. /\ phase = "load" /\ phase' = "args" /\ at = "idle" /\ locals = <<>>
          /\ UNCHANGED <<root, todo, at, test_id, locals, plugins, open, history>>
      BY <1>2 DEF PluginsLoaded, Registry!Loaded, report, registry, RegInv, RegParts
    <2>2. /\ Registry!Instances' = Registry!Instances /\ open = Registry!Instances \cup Loading
          /\ locals \in Seq(LocalVariable) /\ LibraryFirst /\ root = <<>>
          /\ history \subseteq Registry!Instances
      BY <2>1, RegSame DEF RegInv, RegTypes, RegParts
    <2>3. Loading = {}
      BY <2>1, <2>2, LoadingIsFirst DEF Loading, LibraryFirst
    <2>4. RegTypes'
      BY <2>1 DEF RegInv, RegTypes
    <2> QED
      BY <2>1, <2>2, <2>3, <2>4 DEF RegInv, RegParts
  <1>3. CASE \/ BadArguments \/ GoodArguments \/ OpenFile \/ Dump \/ DumpHashes \/ NoPlugins
             \/ EndOfFile \/ FinalFormat \/ PluginThrows
    <2>1. /\ UNCHANGED <<todo, at, test_id, plugins, open, history, locals>>
          /\ phase \notin {"load", "exited"} /\ phase' # "load"
          /\ phase = "analysis" => phase' = "aborted"
          /\ phase # "aborted"
          /\ phase' = "exited" => phase = "args" /\ UNCHANGED root
          /\ phase' = "unload" => root' = <<>>
          /\ phase' # "args"
      BY <1>3 DEF BadArguments, GoodArguments, OpenFile, Dump, DumpHashes, NoPlugins,
                  EndOfFile, FinalFormat, PluginThrows, report, registry, Format
    <2>2. phase' \in {"analysis", "aborted"} \/ locals = <<>>
      BY <2>1 DEF RegInv, RegParts
    <2>3. phase' \in {"args", "unload", "exited"} => root' = <<>>
      BY <2>1 DEF RegInv, RegParts
    <2> QED
      BY <2>1, <2>2, <2>3, RegMain
  <1>4. CASE GetPlugins
    <2>1. /\ UNCHANGED <<todo, at, test_id, plugins, open, history>>
          /\ phase = "plugins" /\ phase' = "analysis"
          /\ locals' = <<Registry!Local("plugins", Registry!Instances)>>
      BY <1>4 DEF GetPlugins
    <2>2. open = Registry!Instances /\ Registry!Instances \subseteq Library /\ at = "idle"
          /\ history \subseteq Registry!Instances
      BY <2>1 DEF RegInv, RegParts, RegTypes
    <2>3. "plugins" \in LocalName
      BY DEF LocalName
    <2>4. /\ Registry!Local("plugins", Registry!Instances) \in LocalVariable
          /\ Registry!Local("plugins", Registry!Instances).libs = Registry!Instances
      BY <2>2, <2>3, LocalTyped, Zenon
    <2>5. PICK v \in LocalVariable : /\ v = Registry!Local("plugins", Registry!Instances)
                                     /\ v.libs = Registry!Instances
      BY <2>4, Zenon
    <2>6. locals' = <<v>>
      BY <2>1, <2>5
    <2>7. <<v>> \in Seq(LocalVariable) /\ DOMAIN <<v>> = {1} /\ <<v>>[1] = v
      OBVIOUS
    <2>8. \A k \in DOMAIN locals' : locals'[k].libs \subseteq open
      BY <2>2, <2>5, <2>6, <2>7
    <2>9. RegTypes'
      BY <2>1, <2>6, <2>7 DEF RegInv, RegTypes
    <2>10. Registry!Instances' = Registry!Instances
      BY <2>1, RegSame
    <2> QED
      BY <2>1, <2>2, <2>8, <2>9, <2>10 DEF RegInv, RegParts
  <1>5. CASE RunPlugins
    <2>1. /\ UNCHANGED <<todo, at, test_id, plugins, open, history>>
          /\ phase = "analysis" /\ phase' = "count" /\ locals' = <<>>
      BY <1>5 DEF RunPlugins
    <2> QED
      BY <2>1, RegMain
  <1>6. CASE Unload
    <2>1. phase = "unload" /\ phase' = "exited" /\ UNCHANGED <<root, todo, at, test_id, locals, history>>
          /\ at = "idle" /\ locals = <<>> /\ root = <<>>
      BY <1>6 DEF Unload, Registry!UnloadAll, report, registry, RegInv, RegParts
    <2>2. CASE opts.plugins
      <3>1. plugins' = <<>> /\ open' = {}
        BY <1>6, <2>2 DEF Unload, Registry!UnloadAll
      <3>2. plugins' \in Seq(Entry) /\ DOMAIN plugins' = {} /\ DOMAIN locals' = {}
        BY <2>1, <3>1
      <3>3. Registry!Instances' = {}
        BY <3>2 DEF Registry!Instances
      <3>4. RegTypes'
        BY <2>1, <3>1, <3>2 DEF RegInv, RegTypes
      <3> QED
        BY <2>1, <3>1, <3>2, <3>3, <3>4 DEF RegInv, RegParts
    <2>3. CASE ~opts.plugins
      <3>1. UNCHANGED <<plugins, open>>
        BY <1>6, <2>3 DEF Unload, registry
      <3> QED
        BY <2>1, <3>1, RegMain
    <2> QED
      BY <2>2, <2>3
  <1>7. CASE Ended \/ UNCHANGED vars
    <2>1. UNCHANGED <<phase, root, todo, at, test_id, locals, plugins, open, history>>
      BY <1>7 DEF Ended, vars, report, registry
    <2>2. Registry!Instances' = Registry!Instances /\ Loading' = Loading /\ (LibraryFirst => LibraryFirst')
      BY <2>1, RegSame DEF Loading, LibraryFirst
    <2>3. RegTypes'
      BY <2>1 DEF RegInv, RegTypes
    <2> QED
      BY <2>1, <2>2, <2>3 DEF RegInv, RegParts
  <1> QED
    BY <1>1, <1>2, <1>3, <1>4, <1>5, <1>6, <1>7 DEF Next, Step

LEMMA RegAlways == Spec => []RegInv
  BY RegInit, RegStep, PTL DEF Spec

\* PluginManager::load and main() (plugin_manager.cpp:24-69, main.cpp:357 and 606-612):
\* as long as an instance of a plugin exists its library is open, whatever libraries
\* there are and wherever load gives up, and as long as nodes made by plugins wait to
\* be printed no registered library has been closed.
THEOREM LibraryOutlivesInstances == Spec => []NothingOutlivesLibrary
  <1>1. RegInv => NothingOutlivesLibrary
    <2>1. SUFFICES ASSUME RegInv PROVE NothingOutlivesLibrary
      OBVIOUS
    <2>2. Registry!NoInstanceOutlivesLibrary
      BY <2>1 DEF RegInv, RegParts, Registry!NoInstanceOutlivesLibrary
    <2>3. CASE phase = "exited"
      <3>1. root = <<>>
        BY <2>1, <2>3 DEF RegInv, RegParts
      <3>2. DOMAIN root = {}
        BY <3>1
      <3> QED
        BY <2>2, <3>2 DEF NothingOutlivesLibrary
    <2>4. CASE phase # "exited"
      <3>1. history \subseteq open
        BY <2>1, <2>4 DEF RegInv, RegParts
      <3> QED
        BY <2>2, <3>1 DEF NothingOutlivesLibrary
    <2> QED
      BY <2>3, <2>4
  <1> QED
    BY <1>1, RegAlways, PTL

\* PluginManager::load (plugin_manager.cpp:56-67): of two plugins with the same id the
\* dynamic one that comes second is never registered, and when no function runs exactly
\* the libraries of registered plugins are open.
THEOREM SecondIdIsRefused == Spec => []DynamicIdsAreUnique
  <1>1. RegInv => DynamicIdsAreUnique
    <2>1. SUFFICES ASSUME RegInv PROVE DynamicIdsAreUnique
      OBVIOUS
    <2>2. locals \in Seq(LocalVariable) /\ (phase = "load" => LibraryFirst)
      BY <2>1 DEF RegInv, RegTypes, RegParts
    <2>3. ASSUME phase = "load", locals = <<>> PROVE open = Registry!Instances
      <3>1. Loading = {}
        BY <2>2, <2>3, LoadingIsFirst DEF Loading, LibraryFirst
      <3> QED
        BY <2>1, <2>3, <3>1 DEF RegInv, RegParts
    <2>4. locals = <<>> => open = Registry!Instances
      BY <2>1, <2>3 DEF RegInv, RegParts
    <2> QED
      BY <2>1, <2>4 DEF DynamicIdsAreUnique, Registry!DynamicIdsAreUnique, RegInv, RegParts
  <1> QED
    BY <1>1, RegAlways, PTL
-------------------------------------------------------------------------------
(* The report.                                                             *)

\* What is written to stdout, and a file that is opened.
Token == {Open, Close, Comma, Banner} \cup [tok : {"file"}, path : Path, nodes : Seq(NodeName)]
FileOpened == [path : Path \cup {-1}, valid : BOOLEAN]

\* In these phases a file is being analysed.
PerFile == {"dump", "hashes", "plugins", "analysis", "count"}

RepTypes ==
    /\ phase \in PerFile \cup {"load", "args", "next", "unload", "exited", "aborted"}
    /\ opts \in Options
    /\ targets \in SUBSET Path
    /\ current \in FileOpened
    /\ count \in Nat
    /\ root \in Seq(FileNode)
    /\ header \in BOOLEAN
    /\ found \in [Path -> Seq(NodeName)]
    /\ out \in Seq(Token)

\* The file nodes are in the order of their paths, and they say what was found.
Rising(r) == \A j, m \in DOMAIN r : j < m => r[j].path < r[m].path
Says(r) == \A j \in DOMAIN r : r[j].nodes = found[r[j].path]

\* The same for what has been printed.
PrintedOf(o) == {k \in DOMAIN o : o[k].tok = "file"}
PrintedRises(o) == \A k, l \in PrintedOf(o) : k < l => o[k].path < o[l].path
PrintedSays(o) == \A k \in PrintedOf(o) : o[k].path \in Path /\ o[k].nodes = found[o[k].path]

\* All of r, and of what is printed, comes before the path p.
NodesBefore(r, p) == \A j \in DOMAIN r : r[j].path < p
PrintedBefore(o, p) == \A k \in PrintedOf(o) : o[k].path < p

\* The path p is in r, or it has been printed.
HasNode(r, p) == \E j \in DOMAIN r : r[j].path = p
IsPrinted(o, p) == \E k \in PrintedOf(o) : o[k].path = p

\* The inductive invariant: what is printed comes before what waits, and that before
\* what is still to come; of the file being analysed nothing has been printed, and its
\* node, if there is one, is the last.
Ordered ==
    /\ Says(root) /\ Rising(root)
    /\ PrintedSays(out) /\ PrintedRises(out)
    /\ \A j \in DOMAIN root : PrintedBefore(out, root[j].path)
    /\ \A p \in Path : found[p] # <<>> => HasNode(root, p) \/ IsPrinted(out, p)
    /\ \A t \in targets : NodesBefore(root, t) /\ PrintedBefore(out, t)

AtFile ==
    /\ current.path \in Path
    /\ \A t \in targets : current.path < t
    /\ PrintedBefore(out, current.path)
    /\ \A j \in DOMAIN root : root[j].path <= current.path

RepParts ==
    /\ Ordered
    /\ phase \in PerFile => AtFile
    /\ phase \in {"load", "args"} => out = <<>> /\ root = <<>>

RepInv == RepTypes /\ RepParts
\* RepInv is true when main() starts.
LEMMA RepInit ==
    ASSUME Init
    PROVE  RepInv
  <1>1. /\ phase = "load" /\ opts \in Options /\ targets = {} /\ current = NoFile /\ count = 0
        /\ root = <<>> /\ header = TRUE /\ out = <<>> /\ found = [p \in Path |-> <<>>]
    BY DEF Init
  <1>2. current \in FileOpened
    BY <1>1 DEF NoFile, FileOpened
  <1>3. <<>> \in Seq(NodeName) /\ <<>> \in Seq(FileNode) /\ <<>> \in Seq(Token)
    OBVIOUS
  <1>4. found \in [Path -> Seq(NodeName)] /\ \A p \in Path : found[p] = <<>>
    BY <1>1, <1>3
  <1>5. RepTypes
    BY <1>1, <1>2, <1>3, <1>4 DEF RepTypes
  <1>6. DOMAIN root = {} /\ DOMAIN out = {}
    BY <1>1
  <1>7. PrintedOf(out) = {}
    BY <1>6 DEF PrintedOf
  <1>8. Ordered
    BY <1>1, <1>4, <1>6, <1>7 DEF Ordered, Says, Rising, PrintedSays, PrintedRises, PrintedBefore
  <1> QED
    BY <1>1, <1>5, <1>8 DEF RepInv, RepParts, PerFile

\* A file node with more nodes.
WithNodes(f, names) == [f EXCEPT !.nodes = @ \o names]

LEMMA WithNodesTyped ==
    ASSUME NEW f \in FileNode, NEW names \in Seq(NodeName), NEW w, w = WithNodes(f, names)
    PROVE  w \in FileNode /\ w.path = f.path /\ w.nodes = f.nodes \o names
  <1>1. PICK p \in Path, ns \in Seq(NodeName) : f = [path |-> p, nodes |-> ns]
    BY DEF FileNode
  <1>2. w = [path |-> p, nodes |-> ns \o names]
    BY <1>1 DEF WithNodes
  <1>3. PICK ms \in Seq(NodeName) : ms = ns \o names
    BY ConcatProperties
  <1>4. w = [path |-> p, nodes |-> ms]
    BY <1>2, <1>3
  <1>5. w \in FileNode
    BY <1>4 DEF FileNode
  <1>6. w.path = p /\ w.nodes = ms /\ f.path = p /\ f.nodes = ns
    BY <1>1, <1>4
  <1> QED
    BY <1>3, <1>5, <1>6

\* add_data for a file that has a node.
LEMMA AddToFound ==
    ASSUME NEW r \in Seq(FileNode), Rising(r), NEW names \in Seq(NodeName),
           NEW i \in DOMAIN r, NEW t, t = AddTo(r, names, r[i].path)
    PROVE  /\ t \in Seq(FileNode) /\ DOMAIN t = DOMAIN r
           /\ \A k \in DOMAIN r : t[k].path = r[k].path
           /\ \A k \in DOMAIN r : k # i => t[k].nodes = r[k].nodes
           /\ t[i].nodes = r[i].nodes \o names
  <1>0. PICK p : p = r[i].path
    OBVIOUS
  <1>1. PICK n \in Nat : n = Len(r) /\ DOMAIN r = 1..n
    OBVIOUS
  <1>2. \A k \in DOMAIN r : r[k] \in FileNode /\ r[k].path \in Nat
    <2>1. \A k \in DOMAIN r : r[k] \in FileNode
      BY <1>1
    <2> QED
      BY <2>1, PathAssumption DEF FileNode
  <1>3. \A k \in DOMAIN r : r[k].path = p => k = i
    <2>1. SUFFICES ASSUME NEW k \in 1..n, r[k].path = p, k # i PROVE FALSE
      BY <1>1
    <2>2. k < i \/ i < k
      BY <1>1, <2>1
    <2> QED
      BY <1>0, <1>1, <1>2, <2>1, <2>2 DEF Rising
  <1>4. (CHOOSE k \in DOMAIN r : r[k].path = p /\ \A l \in 1..(k - 1) : r[l].path # p) = i
    <2>1. \A l \in 1..(i - 1) : r[l].path # p
      <3>1. SUFFICES ASSUME NEW l \in 1..(i - 1) PROVE r[l].path # p
        OBVIOUS
      <3>2. l \in DOMAIN r /\ l # i
        BY <1>1, <3>1
      <3> QED
        BY <1>3, <3>2
    <2> QED
      BY <1>0, <1>3, <2>1
  <1>5. t = [r EXCEPT ![i] = WithNodes(r[i], names)]
    BY <1>0, <1>4 DEF AddTo, WithNodes
  <1>6. PICK w \in FileNode : w = WithNodes(r[i], names) /\ w.path = r[i].path /\ w.nodes = r[i].nodes \o names
    BY <1>2, WithNodesTyped
  <1>7. t = [r EXCEPT ![i] = w]
    BY <1>5, <1>6
  <1>8. t \in Seq(FileNode) /\ DOMAIN t = DOMAIN r /\ t[i] = w /\ \A k \in DOMAIN r : k # i => t[k] = r[k]
    BY <1>7
  <1> QED
    BY <1>6, <1>8

\* add_data for a file that has none.
LEMMA AddToNew ==
    ASSUME NEW r \in Seq(FileNode), NEW names \in Seq(NodeName), NEW p \in Path, ~HasNode(r, p),
           NEW t, t = AddTo(r, names, p)
    PROVE  /\ t \in Seq(FileNode) /\ DOMAIN t = 1..(Len(r) + 1) /\ DOMAIN r = 1..Len(r)
           /\ \A k \in DOMAIN r : t[k] = r[k]
           /\ t[Len(r) + 1].path = p /\ t[Len(r) + 1].nodes = names
  <1>1. PICK w \in FileNode : w = [path |-> p, nodes |-> names] /\ w.path = p /\ w.nodes = names
    <2>1. [path |-> p, nodes |-> names] \in FileNode
      BY DEF FileNode
    <2> QED
      BY <2>1
  <1>2. t = Append(r, w)
    BY <1>1 DEF AddTo, HasNode
  <1>3. PICK n \in Nat : n = Len(r) /\ DOMAIN r = 1..n
    OBVIOUS
  <1>4. /\ t \in Seq(FileNode) /\ Len(t) = n + 1 /\ t[n + 1] = w
        /\ \A k \in 1..n : t[k] = r[k]
    BY <1>2, <1>3, AppendProperties
  <1>5. DOMAIN t = 1..(n + 1)
    BY <1>4
  <1> QED
    BY <1>1, <1>3, <1>4, <1>5

\* The order of paths.
LEMMA PathOrder ==
    ASSUME NEW p \in Path, NEW q \in Path
    PROVE  /\ p \in Nat /\ ~(p < p)
           /\ p < q => p # q /\ p <= q /\ ~(q < p)
           /\ p <= q /\ p # q => p < q
           /\ p <= q => \A t \in Path : q < t => p < t
  BY PathAssumption

\* What add_data does to the tree, whether the file has a node or not.
LEMMA AddAllRoot ==
    ASSUME RepTypes, Ordered, AtFile, NEW names \in Seq(NodeName), names # <<>>, AddAll(names),
           UNCHANGED <<out, targets, current>>,
           NEW p \in Path, p = current.path,
           \A q \in Path : q # p => found'[q] = found[q],
           found'[p] = found[p] \o names
    PROVE  /\ root' \in Seq(FileNode)
           /\ DOMAIN root \subseteq DOMAIN root'
           /\ \A j \in DOMAIN root : root'[j].path = root[j].path
           /\ \A j \in DOMAIN root' : j \in DOMAIN root \/ root'[j].path = p
           /\ \A j \in DOMAIN root' : root'[j].nodes = found'[root'[j].path]
           /\ HasNode(root', p)
           /\ \A j, m \in DOMAIN root' : j < m => root'[j].path < root'[m].path
  <1>1. root' = AddTo(root, names, p)
    BY DEF AddAll
  <1>2. root \in Seq(FileNode) /\ Rising(root) /\ Says(root) /\ found \in [Path -> Seq(NodeName)]
    BY DEF RepTypes, Ordered
  <1>3. PICK n \in Nat : n = Len(root) /\ DOMAIN root = 1..n
    BY <1>2
  <1>4. \A j \in DOMAIN root : root[j].path \in Path /\ root[j].path <= p
    <2>1. \A j \in DOMAIN root : root[j] \in FileNode
      BY <1>2, <1>3
    <2> QED
      BY <2>1 DEF FileNode, AtFile
  <1>5. CASE HasNode(root, p)
    <2>1. PICK i \in DOMAIN root : root[i].path = p
      BY <1>5 DEF HasNode
    <2>a. root' = AddTo(root, names, root[i].path)
      BY <1>1, <2>1
    <2>2. /\ root' \in Seq(FileNode) /\ DOMAIN root' = DOMAIN root
          /\ \A k \in DOMAIN root : root'[k].path = root[k].path
          /\ \A k \in DOMAIN root : k # i => root'[k].nodes = root[k].nodes
          /\ root'[i].nodes = root[i].nodes \o names
      BY <1>2, <2>a, AddToFound, SMTT(30)
    <2>3. \A k \in DOMAIN root : k # i => root[k].path # p
      <3>1. SUFFICES ASSUME NEW k \in 1..n, k # i PROVE root[k].path # root[i].path
        BY <1>3, <2>1
      <3>2. k < i \/ i < k
        BY <1>3, <3>1
      <3>3. root[k].path < root[i].path \/ root[i].path < root[k].path
        BY <1>2, <1>3, <3>2 DEF Rising
      <3> QED
        BY <1>3, <1>4, <3>3, PathOrder
    <2>4. ASSUME NEW k \in DOMAIN root PROVE root'[k].nodes = found'[root'[k].path]
      <3>1. CASE k = i
        BY <1>2, <2>1, <2>2, <3>1 DEF Says
      <3>2. CASE k # i
        <4>1. root'[k].nodes = root[k].nodes /\ root'[k].path = root[k].path
          BY <2>2, <3>2, Zenon
        <4>2. root[k].path \in Path /\ root[k].path # p
          BY <1>4, <2>3, <3>2, Zenon
        <4>3. found'[root[k].path] = found[root[k].path]
          BY <1>2, <4>2
        <4>4. root[k].nodes = found[root[k].path]
          BY <1>2 DEF Says
        <4> QED
          BY <4>1, <4>3, <4>4, Zenon
      <3> QED
        BY <3>1, <3>2
    <2>5. HasNode(root', p)
      BY <2>1, <2>2 DEF HasNode
    <2>6. \A j, m \in DOMAIN root' : j < m => root'[j].path < root'[m].path
      BY <1>2, <2>2 DEF Rising
    <2> QED
      BY <2>2, <2>4, <2>5, <2>6
  <1>6. CASE ~HasNode(root, p)
    <2>1. /\ root' \in Seq(FileNode) /\ DOMAIN root' = 1..(n + 1)
          /\ \A k \in 1..n : root'[k] = root[k]
          /\ root'[n + 1].path = p /\ root'[n + 1].nodes = names
      BY <1>1, <1>2, <1>3, <1>6, AddToNew
    <2>2. found[p] = <<>>
      <3>1. ~IsPrinted(out, p)
        <4>1. \A k \in PrintedOf(out) : out[k].path \in Path /\ out[k].path < p
          BY DEF Ordered, PrintedSays, AtFile, PrintedBefore
        <4> QED
          BY <4>1, PathOrder DEF IsPrinted
      <3> QED
        BY <1>6, <3>1 DEF Ordered
    <2>3. found'[p] = names
      BY <2>2, ConcatEmptySeq
    <2>4. \A k \in 1..n : root[k].path # p /\ root[k].path < p
      BY <1>3, <1>4, <1>6, PathOrder DEF HasNode
    <2>5. 1..(n + 1) = 1..n \cup {n + 1}
      OBVIOUS
    <2>6. ASSUME NEW k \in 1..(n + 1) PROVE root'[k].nodes = found'[root'[k].path]
      <3>1. CASE k = n + 1
        BY <2>1, <2>3, <3>1
      <3>2. CASE k \in 1..n
        <4>1. root'[k] = root[k] /\ root[k].path \in Path /\ root[k].path # p /\ k \in DOMAIN root
          BY <1>3, <1>4, <2>1, <2>4, <3>2
        <4>2. found'[root[k].path] = found[root[k].path] /\ root[k].nodes = found[root[k].path]
          BY <1>2, <4>1, Zenon DEF Says
        <4> QED
          BY <4>1, <4>2
      <3> QED
        BY <2>5, <3>1, <3>2
    <2>7. HasNode(root', p)
      BY <2>1, <2>5 DEF HasNode
    <2>8. ASSUME NEW j \in 1..(n + 1), NEW m \in 1..(n + 1), j < m
          PROVE  root'[j].path < root'[m].path
      <3>1. j \in 1..n
        BY <2>8
      <3>2. CASE m = n + 1
        BY <2>1, <2>4, <3>1, <3>2
      <3>3. CASE m \in 1..n
        BY <1>2, <1>3, <2>1, <2>8, <3>1, <3>3 DEF Rising
      <3> QED
        BY <2>5, <3>2, <3>3
    <2> QED
      BY <1>3, <2>1, <2>5, <2>6, <2>7, <2>8
  <1> QED
    BY <1>5, <1>6

\* add_data keeps the order, and the node of the file is the last.
LEMMA AddAllKeeps ==
    ASSUME RepTypes, Ordered, AtFile, NEW names \in Seq(NodeName), AddAll(names),
           UNCHANGED <<out, targets, current>>
    PROVE  /\ root' \in Seq(FileNode) /\ found' \in [Path -> Seq(NodeName)]
           /\ Ordered' /\ AtFile'
  <1>1. PICK p \in Path : p = current.path
    BY DEF AtFile
  <1>2. root \in Seq(FileNode) /\ found \in [Path -> Seq(NodeName)] /\ targets \subseteq Path
    BY DEF RepTypes
  <1>3. found' = [found EXCEPT ![p] = found[p] \o names]
    BY <1>1 DEF AddAll
  <1>4. PICK ms \in Seq(NodeName) : ms = found[p] \o names
    BY <1>2, ConcatProperties
  <1>5. /\ found' \in [Path -> Seq(NodeName)]
        /\ \A q \in Path : q # p => found'[q] = found[q]
        /\ found'[p] = found[p] \o names
    <2>1. found' = [found EXCEPT ![p] = ms]
      BY <1>3, <1>4
    <2> QED
      BY <1>2, <1>4, <2>1
  <1>6. \A k \in PrintedOf(out) : out[k].path \in Path /\ out[k].path < p /\ out[k].path # p
    <2>1. \A k \in PrintedOf(out) : out[k].path \in Path /\ out[k].path < p
      BY <1>1 DEF Ordered, PrintedSays, AtFile, PrintedBefore
    <2> QED
      BY <2>1, PathOrder
  <1>7. PrintedSays(out)'
    <2>1. ASSUME NEW k \in PrintedOf(out) PROVE out[k].path \in Path /\ out[k].nodes = found'[out[k].path]
      <3>1. out[k].nodes = found[out[k].path]
        BY DEF Ordered, PrintedSays
      <3>2. found'[out[k].path] = found[out[k].path]
        BY <1>5, <1>6, Zenon
      <3> QED
        BY <1>6, <3>1, <3>2
    <2> QED
      BY <2>1 DEF PrintedSays
  <1>8. CASE names = <<>>
    <2>1. root' = root
      BY <1>8 DEF AddAll
    <2>2. found[p] \o names = found[p]
      BY <1>2, <1>8, ConcatEmptySeq
    <2>3. \A q \in Path : found'[q] = found[q]
      BY <1>5, <2>2
    <2>4. found' = found
      BY <1>2, <1>5, <2>3
    <2> QED
      BY <1>2, <2>1, <2>4 DEF Ordered, AtFile, Says, PrintedSays
  <1>9. CASE names # <<>>
    <2>1. /\ root' \in Seq(FileNode)
          /\ DOMAIN root \subseteq DOMAIN root'
          /\ \A j \in DOMAIN root : root'[j].path = root[j].path
          /\ \A j \in DOMAIN root' : j \in DOMAIN root \/ root'[j].path = p
          /\ \A j \in DOMAIN root' : root'[j].nodes = found'[root'[j].path]
          /\ HasNode(root', p)
          /\ \A j, m \in DOMAIN root' : j < m => root'[j].path < root'[m].path
      BY <1>1, <1>5, <1>9, AddAllRoot
    <2>2. \A j \in DOMAIN root' : \/ root'[j].path = p
                                  \/ j \in DOMAIN root /\ root'[j].path = root[j].path
      BY <2>1
    <2>3. Says(root)' /\ Rising(root)'
      BY <2>1 DEF Says, Rising
    <2>4. \A j \in DOMAIN root' : PrintedBefore(out, root'[j].path)
      <3>1. SUFFICES ASSUME NEW j \in DOMAIN root' PROVE PrintedBefore(out, root'[j].path)
        OBVIOUS
      <3>2. CASE root'[j].path = p
        BY <1>6, <3>2 DEF PrintedBefore
      <3>3. CASE j \in DOMAIN root /\ root'[j].path = root[j].path
        BY <3>3 DEF Ordered
      <3> QED
        BY <2>2, <3>2, <3>3
    <2>5. \A q \in Path : found'[q] # <<>> => HasNode(root', q) \/ IsPrinted(out, q)
      <3>1. SUFFICES ASSUME NEW q \in Path, found'[q] # <<>>, q # p
                     PROVE  HasNode(root', q) \/ IsPrinted(out, q)
        BY <2>1
      <3>2. found[q] # <<>>
        BY <1>5, <3>1
      <3>3. HasNode(root, q) \/ IsPrinted(out, q)
        BY <3>2 DEF Ordered
      <3>4. HasNode(root, q) => HasNode(root', q)
        BY <2>1 DEF HasNode
      <3> QED
        BY <3>3, <3>4
    <2>6. \A t \in targets : NodesBefore(root', t)
      <3>1. SUFFICES ASSUME NEW t \in targets, NEW j \in DOMAIN root' PROVE root'[j].path < t
        BY DEF NodesBefore
      <3>2. p < t /\ \A m \in DOMAIN root : root[m].path < t
        BY <1>1 DEF Ordered, AtFile, NodesBefore
      <3> QED
        BY <2>2, <3>2
    <2>7. \A j \in DOMAIN root' : root'[j].path <= p
      <3>1. p <= p
        BY PathAssumption
      <3>2. \A m \in DOMAIN root : root[m].path <= p
        BY <1>1 DEF AtFile
      <3> QED
        BY <2>2, <3>1, <3>2
    <2>8. Ordered'
      <3>1. PrintedRises(out) /\ \A t \in targets : PrintedBefore(out, t)
        BY DEF Ordered
      <3>2. UNCHANGED <<out, targets>>
        OBVIOUS
      <3> QED
        BY <1>7, <2>3, <2>4, <2>5, <2>6, <3>1, <3>2 DEF Ordered
    <2>9. AtFile'
      <3>1. UNCHANGED <<out, targets, current>>
        OBVIOUS
      <3> QED
        BY <1>1, <2>7, <3>1 DEF AtFile
    <2> QED
      BY <1>5, <2>1, <2>8, <2>9
  <1> QED
    BY <1>5, <1>8, <1>9

\* What is printed for a tree: its nodes and no others, in their order.
Lists(b, r) ==
    /\ \A k \in PrintedOf(b) : \E j \in DOMAIN r : b[k].path = r[j].path /\ b[k].nodes = r[j].nodes
    /\ \A k, l \in PrintedOf(b) : k < l =>
           \E i, j \in DOMAIN r : i < j /\ b[k].path = r[i].path /\ b[l].path = r[j].path
    /\ \A j \in DOMAIN r : \E k \in PrintedOf(b) : b[k].path = r[j].path

\* The tokens.
LEMMA Tokens ==
    /\ Open \in Token /\ Close \in Token /\ Comma \in Token /\ Banner \in Token
    /\ Open.tok # "file" /\ Close.tok # "file" /\ Comma.tok # "file" /\ Banner.tok # "file"
  <1>1. Open \in Token /\ Close \in Token /\ Comma \in Token /\ Banner \in Token
    BY Zenon DEF Token
  <1>2. Open.tok # "file" /\ Close.tok # "file" /\ Comma.tok # "file" /\ Banner.tok # "file"
    BY DEF Open, Close, Comma, Banner
  <1> QED
    BY <1>1, <1>2

LEMMA ObjectTyped ==
    ASSUME NEW f \in FileNode
    PROVE  /\ Object(f) \in Token
           /\ Object(f).tok = "file" /\ Object(f).path = f.path /\ Object(f).nodes = f.nodes
  <1>1. PICK p \in Path, ns \in Seq(NodeName) : f = [path |-> p, nodes |-> ns]
    BY DEF FileNode
  <1>2. f.path = p /\ f.nodes = ns
    BY <1>1
  <1>3. Object(f) = [tok |-> "file", path |-> p, nodes |-> ns]
    BY <1>2 DEF Object
  <1>4. Object(f) \in [tok : {"file"}, path : Path, nodes : Seq(NodeName)]
    BY <1>3
  <1>5. Object(f) \in Token
    BY <1>4, Zenon DEF Token
  <1> QED
    BY <1>2, <1>3, <1>5

\* RawFormatter prints one object after the other.
LEMMA RawLists ==
    ASSUME NEW r \in Seq(FileNode), NEW b, b = RawBody(r)
    PROVE  b \in Seq(Token) /\ Lists(b, r)
  <1>1. PICK n \in Nat : n = Len(r) /\ DOMAIN r = 1..n
    OBVIOUS
  <1>2. b = [k \in 1..n |-> Object(r[k])]
    BY <1>1 DEF RawBody
  <1>3. \A k \in 1..n : /\ Object(r[k]) \in Token
                        /\ Object(r[k]).tok = "file" /\ Object(r[k]).path = r[k].path
                        /\ Object(r[k]).nodes = r[k].nodes
    <2>1. SUFFICES ASSUME NEW k \in 1..n
                   PROVE  /\ Object(r[k]) \in Token
                          /\ Object(r[k]).tok = "file" /\ Object(r[k]).path = r[k].path
                          /\ Object(r[k]).nodes = r[k].nodes
      OBVIOUS
    <2>2. r[k] \in FileNode
      BY <1>1
    <2> QED
      BY <2>2, ObjectTyped
  <1>4. b \in [1..n -> Token]
    BY <1>2, <1>3, Zenon
  <1>5. b \in Seq(Token)
    BY <1>4, SeqDef, Zenon
  <1>6. DOMAIN b = 1..n /\ \A k \in 1..n : b[k].tok = "file" /\ b[k].path = r[k].path /\ b[k].nodes = r[k].nodes
    BY <1>2, <1>3
  <1>7. PrintedOf(b) = 1..n
    BY <1>6 DEF PrintedOf
  <1> QED
    BY <1>1, <1>5, <1>6, <1>7 DEF Lists

\* JsonFormatter prints a comma between two objects.
LEMMA JsonLists ==
    ASSUME NEW r \in Seq(FileNode), NEW b, b = JsonBody(r)
    PROVE  b \in Seq(Token) /\ Lists(b, r)
  <1>1. PICK n \in Nat : n = Len(r) /\ DOMAIN r = 1..n
    OBVIOUS
  <1>2. PICK N \in Nat : N = IF n = 0 THEN 0 ELSE 2 * n - 1
    OBVIOUS
  <1>3. r = <<>> <=> n = 0
    BY <1>1
  <1>4. b = [k \in 1..N |-> IF k % 2 = 1 THEN Object(r[(k + 1) \div 2]) ELSE Comma]
    BY <1>1, <1>2, <1>3 DEF JsonBody
  <1>5. ASSUME NEW j \in 1..n
        PROVE  /\ 2 * j - 1 \in 1..N /\ (2 * j - 1) % 2 = 1 /\ ((2 * j - 1) + 1) \div 2 = j
               /\ Object(r[j]) \in Token
               /\ Object(r[j]).tok = "file" /\ Object(r[j]).path = r[j].path
               /\ Object(r[j]).nodes = r[j].nodes
    <2>1. r[j] \in FileNode
      BY <1>1
    <2>2. 2 * j - 1 \in 1..N /\ (2 * j - 1) % 2 = 1 /\ ((2 * j - 1) + 1) \div 2 = j
      BY <1>2
    <2> QED
      BY <2>1, <2>2, ObjectTyped
  <1>6. ASSUME NEW k \in 1..N, k % 2 = 1
        PROVE  (k + 1) \div 2 \in 1..n /\ 2 * ((k + 1) \div 2) - 1 = k
    BY <1>2, <1>6
  <1>7. DOMAIN b = 1..N
    BY <1>4
  <1>8. ASSUME NEW k \in 1..N PROVE b[k] = IF k % 2 = 1 THEN Object(r[(k + 1) \div 2]) ELSE Comma
    BY <1>4
  <1>9. ASSUME NEW k \in 1..N PROVE b[k] \in Token /\ (b[k].tok = "file" <=> k % 2 = 1)
    <2>1. CASE k % 2 = 1
      BY <1>5, <1>6, <1>8, <2>1
    <2>2. CASE k % 2 # 1
      BY <1>8, <2>2, Tokens
    <2> QED
      BY <2>1, <2>2
  <1>10. b \in Seq(Token)
    <2>1. b \in [1..N -> Token]
      <3>1. b = [k \in 1..N |-> b[k]]
        BY <1>4, Zenon
      <3> QED
        BY <1>9, <3>1, Zenon
    <2> QED
      BY <2>1, SeqDef, Zenon
  <1>11. PrintedOf(b) = {k \in 1..N : k % 2 = 1}
    BY <1>7, <1>9 DEF PrintedOf
  <1>12. ASSUME NEW k \in PrintedOf(b)
         PROVE  /\ (k + 1) \div 2 \in DOMAIN r
                /\ b[k].path = r[(k + 1) \div 2].path /\ b[k].nodes = r[(k + 1) \div 2].nodes
    <2>1. k \in 1..N /\ k % 2 = 1
      BY <1>11, <1>12
    <2>2. (k + 1) \div 2 \in 1..n /\ b[k] = Object(r[(k + 1) \div 2])
      BY <1>6, <1>8, <2>1
    <2> QED
      BY <1>1, <1>5, <2>2
  <1>13. ASSUME NEW k \in PrintedOf(b), NEW l \in PrintedOf(b), k < l
         PROVE  (k + 1) \div 2 < (l + 1) \div 2
    <2>1. k \in 1..N /\ k % 2 = 1 /\ l \in 1..N /\ l % 2 = 1
      BY <1>11, <1>13
    <2> QED
      BY <1>6, <1>13, <2>1
  <1>14. ASSUME NEW j \in DOMAIN r PROVE 2 * j - 1 \in PrintedOf(b) /\ b[2 * j - 1].path = r[j].path
    <2>1. j \in 1..n
      BY <1>1
    <2>2. 2 * j - 1 \in 1..N /\ (2 * j - 1) % 2 = 1 /\ ((2 * j - 1) + 1) \div 2 = j /\ Object(r[j]).path = r[j].path
      BY <1>5, <2>1
    <2>3. b[2 * j - 1] = Object(r[((2 * j - 1) + 1) \div 2])
      BY <1>8, <2>2
    <2> QED
      BY <1>11, <2>2, <2>3
  <1> QED
    BY <1>10, <1>12, <1>13, <1>14, Zenon DEF Lists

\* A sequence of tokens none of which is a file.
NoFiles(x) == PrintedOf(x) = {}

\* The same files are printed, in the same places.
SamePrinted(t, o) == PrintedOf(t) = PrintedOf(o) /\ \A k \in PrintedOf(o) : t[k] = o[k]

\* Printing what is no file changes nothing.
LEMMA PrintOther ==
    ASSUME NEW o \in Seq(Token), NEW x \in Seq(Token), NoFiles(x), NEW t, t = o \o x
    PROVE  t \in Seq(Token) /\ SamePrinted(t, o)
  <1>1. PICK n \in Nat, m \in Nat : /\ n = Len(o) /\ m = Len(x)
                                    /\ DOMAIN o = 1..n /\ DOMAIN x = 1..m
    OBVIOUS
  <1>2. /\ t \in Seq(Token) /\ Len(t) = n + m
        /\ \A i \in 1..(n + m) : t[i] = IF i <= n THEN o[i] ELSE x[i - n]
    BY <1>1, ConcatProperties
  <1>3. DOMAIN t = 1..(n + m)
    BY <1>2
  <1>4. \A i \in 1..n : t[i] = o[i]
    BY <1>2
  <1>5. ASSUME NEW k \in 1..(n + m), k \notin 1..n PROVE k \notin PrintedOf(t)
    <2>1. t[k] = x[k - n] /\ k - n \in 1..m
      BY <1>2, <1>5
    <2> QED
      BY <1>1, <2>1 DEF PrintedOf, NoFiles
  <1>6. 1..n \subseteq 1..(n + m)
    OBVIOUS
  <1>7. PrintedOf(t) = PrintedOf(o)
    BY <1>1, <1>3, <1>4, <1>5, <1>6 DEF PrintedOf
  <1>8. \A k \in PrintedOf(o) : t[k] = o[k]
    BY <1>1, <1>4 DEF PrintedOf
  <1> QED
    BY <1>2, <1>7, <1>8 DEF SamePrinted

\* What is said of the files printed depends on these alone.
LEMMA PrintedSame ==
    ASSUME NEW o, NEW t, SamePrinted(t, o)
    PROVE  /\ PrintedSays(o) => PrintedSays(t)
           /\ PrintedRises(o) => PrintedRises(t)
           /\ \A p : PrintedBefore(o, p) => PrintedBefore(t, p)
           /\ \A p : IsPrinted(o, p) => IsPrinted(t, p)
  BY DEF SamePrinted, PrintedSays, PrintedRises, PrintedBefore, IsPrinted

\* Printing the nodes of a tree that come behind all that was printed before.
LEMMA PrintNodes ==
    ASSUME NEW o \in Seq(Token), NEW b \in Seq(Token), NEW r \in Seq(FileNode),
           Lists(b, r), Says(r), Rising(r), PrintedSays(o), PrintedRises(o),
           \A j \in DOMAIN r : PrintedBefore(o, r[j].path),
           NEW t, t = o \o b
    PROVE  /\ t \in Seq(Token) /\ PrintedSays(t) /\ PrintedRises(t)
           /\ \A p : NodesBefore(r, p) /\ PrintedBefore(o, p) => PrintedBefore(t, p)
           /\ \A p : HasNode(r, p) \/ IsPrinted(o, p) => IsPrinted(t, p)
  <1>1. PICK n \in Nat, m \in Nat : /\ n = Len(o) /\ m = Len(b)
                                    /\ DOMAIN o = 1..n /\ DOMAIN b = 1..m
    OBVIOUS
  <1>2. /\ t \in Seq(Token) /\ Len(t) = n + m
        /\ \A i \in 1..(n + m) : t[i] = IF i <= n THEN o[i] ELSE b[i - n]
    BY <1>1, ConcatProperties
  <1>3. DOMAIN t = 1..(n + m)
    BY <1>2
  <1>4. ASSUME NEW k \in PrintedOf(t)
        PROVE  \/ k \in 1..n /\ k \in PrintedOf(o) /\ t[k] = o[k]
               \/ k \in (n + 1)..(n + m) /\ k - n \in PrintedOf(b) /\ t[k] = b[k - n]
    <2>1. k \in 1..(n + m) /\ t[k].tok = "file"
      BY <1>3, <1>4 DEF PrintedOf
    <2>2. CASE k <= n
      <3>1. k \in 1..n /\ t[k] = o[k]
        BY <1>2, <2>1, <2>2
      <3> QED
        BY <1>1, <2>1, <3>1 DEF PrintedOf
    <2>3. CASE ~(k <= n)
      <3>1. k \in (n + 1)..(n + m) /\ k - n \in 1..m /\ t[k] = b[k - n]
        BY <1>2, <2>1, <2>3, SMTT(30)
      <3> QED
        BY <1>1, <2>1, <3>1 DEF PrintedOf
    <2> QED
      BY <2>2, <2>3
  <1>5. ASSUME NEW k \in PrintedOf(o) PROVE k \in PrintedOf(t) /\ t[k] = o[k]
    <2>1. k \in 1..n /\ o[k].tok = "file"
      BY <1>1, <1>5 DEF PrintedOf
    <2>2. k \in 1..(n + m) /\ t[k] = o[k]
      BY <1>2, <2>1
    <2> QED
      BY <1>3, <2>1, <2>2 DEF PrintedOf
  <1>6. ASSUME NEW k \in PrintedOf(b) PROVE n + k \in PrintedOf(t) /\ t[n + k] = b[k]
    <2>1. k \in 1..m /\ b[k].tok = "file"
      BY <1>1, <1>6 DEF PrintedOf
    <2>2. n + k \in 1..(n + m) /\ ~(n + k <= n) /\ (n + k) - n = k
      BY <2>1
    <2>3. t[n + k] = b[k]
      BY <1>2, <2>2
    <2> QED
      BY <1>3, <2>1, <2>2, <2>3 DEF PrintedOf
  <1>7. \A j \in DOMAIN r : r[j].path \in Path /\ r[j].nodes = found[r[j].path]
    <2>1. \A j \in DOMAIN r : r[j] \in FileNode
      OBVIOUS
    <2> QED
      BY <2>1 DEF FileNode, Says
  <1>8. PrintedSays(t)
    <2>1. SUFFICES ASSUME NEW k \in PrintedOf(t) PROVE t[k].path \in Path /\ t[k].nodes = found[t[k].path]
      BY DEF PrintedSays
    <2>2. CASE k \in PrintedOf(o) /\ t[k] = o[k]
      BY <2>2 DEF PrintedSays
    <2>3. CASE k - n \in PrintedOf(b) /\ t[k] = b[k - n]
      <3>1. PICK j \in DOMAIN r : t[k].path = r[j].path /\ t[k].nodes = r[j].nodes
        BY <2>3 DEF Lists
      <3> QED
        BY <1>7, <3>1
    <2> QED
      BY <1>4, <2>2, <2>3
  <1>9. PrintedRises(t)
    <2>1. SUFFICES ASSUME NEW k \in PrintedOf(t), NEW l \in PrintedOf(t), k < l PROVE t[k].path < t[l].path
      BY DEF PrintedRises
    <2>2. CASE l \in 1..n /\ l \in PrintedOf(o) /\ t[l] = o[l]
      <3>1. k \notin (n + 1)..(n + m)
        <4>1. k \in Nat
          BY <1>4
        <4> QED
          BY <2>1, <2>2, <4>1
      <3>2. k \in PrintedOf(o) /\ t[k] = o[k]
        BY <1>4, <3>1
      <3> QED
        BY <2>1, <2>2, <3>2 DEF PrintedRises
    <2>3. CASE l \in (n + 1)..(n + m) /\ l - n \in PrintedOf(b) /\ t[l] = b[l - n]
      <3>1. CASE k \in PrintedOf(o) /\ t[k] = o[k]
        <4>1. PICK j \in DOMAIN r : t[l].path = r[j].path
          BY <2>3 DEF Lists
        <4>2. o[k].path < r[j].path
          BY <3>1 DEF PrintedBefore
        <4> QED
          BY <3>1, <4>1, <4>2
      <3>2. CASE k \in (n + 1)..(n + m) /\ k - n \in PrintedOf(b) /\ t[k] = b[k - n]
        <4>1. k - n < l - n
          BY <2>1, <2>3, <3>2
        <4>2. PICK i \in DOMAIN r, j \in DOMAIN r : /\ i < j
                                                    /\ b[k - n].path = r[i].path /\ b[l - n].path = r[j].path
          <5>1. \A x, y \in PrintedOf(b) : x < y =>
                    \E i, j \in DOMAIN r : i < j /\ b[x].path = r[i].path /\ b[y].path = r[j].path
            BY DEF Lists
          <5> QED
            BY <2>3, <3>2, <4>1, <5>1
        <4>3. r[i].path < r[j].path
          BY <4>2 DEF Rising
        <4> QED
          BY <2>3, <3>2, <4>2, <4>3
      <3> QED
        BY <1>4, <3>1, <3>2
    <2> QED
      BY <1>4, <2>2, <2>3
  <1>10. ASSUME NEW p, NodesBefore(r, p), PrintedBefore(o, p) PROVE PrintedBefore(t, p)
    <2>1. SUFFICES ASSUME NEW k \in PrintedOf(t) PROVE t[k].path < p
      BY DEF PrintedBefore
    <2>2. CASE k \in PrintedOf(o) /\ t[k] = o[k]
      BY <1>10, <2>2 DEF PrintedBefore
    <2>3. CASE k - n \in PrintedOf(b) /\ t[k] = b[k - n]
      <3>1. PICK j \in DOMAIN r : t[k].path = r[j].path
        BY <2>3 DEF Lists
      <3> QED
        BY <1>10, <3>1 DEF NodesBefore
    <2> QED
      BY <1>4, <2>2, <2>3
  <1>11. ASSUME NEW p, HasNode(r, p) \/ IsPrinted(o, p) PROVE IsPrinted(t, p)
    <2>1. CASE IsPrinted(o, p)
      BY <1>5, <2>1 DEF IsPrinted
    <2>2. CASE HasNode(r, p)
      <3>1. PICK j \in DOMAIN r : r[j].path = p
        BY <2>2 DEF HasNode
      <3>2. PICK k \in PrintedOf(b) : b[k].path = p
        BY <3>1 DEF Lists
      <3> QED
        BY <1>6, <3>2 DEF IsPrinted
    <2> QED
      BY <1>11, <2>1, <2>2
  <1> QED
    BY <1>2, <1>8, <1>9, <1>10, <1>11

\* No file, or one token that is none.
LEMMA NoFilePrinted ==
    /\ <<>> \in Seq(Token) /\ NoFiles(<<>>)
    /\ \A x \in Token : x.tok # "file" => <<x>> \in Seq(Token) /\ NoFiles(<<x>>)
  <1>1. <<>> \in Seq(Token) /\ DOMAIN <<>> = {}
    OBVIOUS
  <1>2. ASSUME NEW x \in Token, x.tok # "file" PROVE <<x>> \in Seq(Token) /\ NoFiles(<<x>>)
    <2>1. <<x>> \in Seq(Token) /\ DOMAIN <<x>> = {1} /\ <<x>>[1] = x
      OBVIOUS
    <2> QED
      BY <1>2, <2>1 DEF PrintedOf, NoFiles
  <1> QED
    BY <1>1, <1>2 DEF PrintedOf, NoFiles

\* The three parts of what one call of format() prints.
LEMMA FormatParts ==
    ASSUME RepTypes, NEW e \in BOOLEAN, Format(e)
    PROVE  \E h, b, c \in Seq(Token) :
               /\ out' = ((out \o h) \o b) \o c
               /\ NoFiles(h) /\ Lists(b, root) /\ NoFiles(c)
               /\ h = IF ~header THEN <<>> ELSE IF opts.json THEN <<Open>> ELSE <<Banner>>
               /\ b = IF opts.json THEN JsonBody(root) ELSE RawBody(root)
               /\ c = IF opts.json /\ e THEN <<Close>> ELSE <<>>
  <1>1. root \in Seq(FileNode)
    BY DEF RepTypes
  <1>2. PICK h : h = IF ~header THEN <<>> ELSE IF opts.json THEN <<Open>> ELSE <<Banner>>
    OBVIOUS
  <1>3. PICK b : b = IF opts.json THEN JsonBody(root) ELSE RawBody(root)
    OBVIOUS
  <1>4. PICK c : c = IF opts.json /\ e THEN <<Close>> ELSE <<>>
    OBVIOUS
  <1>5. h \in Seq(Token) /\ NoFiles(h)
    <2>1. /\ <<Open>> \in Seq(Token) /\ NoFiles(<<Open>>)
          /\ <<Banner>> \in Seq(Token) /\ NoFiles(<<Banner>>)
      BY Tokens, NoFilePrinted, Zenon
    <2>2. CASE ~header
      BY <1>2, <2>2, NoFilePrinted
    <2>3. CASE header /\ opts.json
      BY <1>2, <2>1, <2>3
    <2>4. CASE header /\ ~opts.json
      BY <1>2, <2>1, <2>4
    <2> QED
      BY <2>2, <2>3, <2>4
  <1>6. b \in Seq(Token) /\ Lists(b, root)
    <2>1. CASE opts.json
      BY <1>1, <1>3, <2>1, JsonLists
    <2>2. CASE ~opts.json
      BY <1>1, <1>3, <2>2, RawLists
    <2> QED
      BY <2>1, <2>2
  <1>7. c \in Seq(Token) /\ NoFiles(c)
    <2>1. <<Close>> \in Seq(Token) /\ NoFiles(<<Close>>)
      BY Tokens, NoFilePrinted, Zenon
    <2>2. CASE opts.json /\ e
      BY <1>4, <2>1, <2>2
    <2>3. CASE ~(opts.json /\ e)
      BY <1>4, <2>3, NoFilePrinted
    <2> QED
      BY <2>2, <2>3
  <1>8. out' = ((out \o h) \o b) \o c
    BY <1>2, <1>3, <1>4, Zenon DEF Format
  <1> QED
    BY <1>2, <1>3, <1>4, <1>5, <1>6, <1>7, <1>8, Zenon

\* format() prints the nodes behind what was printed before, and nothing is lost.
LEMMA FormatKeeps ==
    ASSUME RepTypes, Ordered, NEW e \in BOOLEAN, Format(e), UNCHANGED <<targets, found>>
    PROVE  out' \in Seq(Token) /\ root' = <<>> /\ Ordered'
  <1>1. PICK h \in Seq(Token), b \in Seq(Token), c \in Seq(Token) :
            /\ out' = ((out \o h) \o b) \o c
            /\ NoFiles(h) /\ Lists(b, root) /\ NoFiles(c)
    BY FormatParts
  <1>2. /\ out \in Seq(Token) /\ root \in Seq(FileNode)
        /\ Says(root) /\ Rising(root) /\ PrintedSays(out) /\ PrintedRises(out)
        /\ \A j \in DOMAIN root : PrintedBefore(out, root[j].path)
    BY DEF RepTypes, Ordered
  <1>3. PICK o1 : o1 = out \o h
    OBVIOUS
  <1>4. o1 \in Seq(Token) /\ SamePrinted(o1, out)
    <2>1. out \in Seq(Token) /\ NoFiles(h)
      BY <1>1, <1>2
    <2> QED
      BY <1>3, <2>1, PrintOther
  <1>5. /\ PrintedSays(o1) /\ PrintedRises(o1)
        /\ \A p : PrintedBefore(out, p) => PrintedBefore(o1, p)
        /\ \A p : IsPrinted(out, p) => IsPrinted(o1, p)
    BY <1>2, <1>4, PrintedSame
  <1>6. PICK o2 : o2 = o1 \o b
    OBVIOUS
  <1>7. \A j \in DOMAIN root : PrintedBefore(o1, root[j].path)
    BY <1>2, <1>5
  <1>8. /\ o2 \in Seq(Token) /\ PrintedSays(o2) /\ PrintedRises(o2)
        /\ \A p : NodesBefore(root, p) /\ PrintedBefore(o1, p) => PrintedBefore(o2, p)
        /\ \A p : HasNode(root, p) \/ IsPrinted(o1, p) => IsPrinted(o2, p)
    BY <1>1, <1>2, <1>4, <1>5, <1>6, <1>7, PrintNodes
  <1>9. PICK o3 : o3 = o2 \o c
    OBVIOUS
  <1>10. o3 \in Seq(Token) /\ SamePrinted(o3, o2)
    <2>1. o2 \in Seq(Token) /\ NoFiles(c)
      BY <1>1, <1>8
    <2> QED
      BY <1>9, <2>1, PrintOther
  <1>11. /\ PrintedSays(o3) /\ PrintedRises(o3)
         /\ \A p : PrintedBefore(o2, p) => PrintedBefore(o3, p)
         /\ \A p : IsPrinted(o2, p) => IsPrinted(o3, p)
    BY <1>8, <1>10, PrintedSame
  <1>12. out' = o3 /\ root' = <<>>
    BY <1>1, <1>3, <1>6, <1>9 DEF Format
  <1>13. DOMAIN root' = {}
    BY <1>12
  <1>14. Says(root)' /\ Rising(root)' /\ \A p : NodesBefore(root', p)
    BY <1>13 DEF Says, Rising, NodesBefore
  <1>15. PrintedSays(out)' /\ PrintedRises(out)'
    BY <1>11, <1>12 DEF PrintedSays, PrintedRises, PrintedOf
  <1>16. \A t \in targets : PrintedBefore(o3, t)
    BY <1>5, <1>8, <1>11 DEF Ordered
  <1>17. \A p \in Path : found[p] # <<>> => IsPrinted(o3, p)
    BY <1>5, <1>8, <1>11 DEF Ordered
  <1>18. Ordered'
    BY <1>12, <1>13, <1>14, <1>15, <1>16, <1>17 DEF Ordered
  <1> QED
    BY <1>10, <1>12, <1>18

\* The names that are added.
LEMMA NamesTyped ==
    /\ "Hashes" \in NodeName /\ "Plugins" \in NodeName /\ "Summary" \in NodeName
    /\ \A k \in DOMAIN Category : Category[k] \in NodeName
    /\ \A x \in NodeName : <<x>> \in Seq(NodeName)
  <1>1. "Hashes" \in NodeName /\ "Plugins" \in NodeName
    BY DEF NodeName
  <1>2. \A k \in DOMAIN Category : Category[k] \in NodeName
    BY Zenon DEF NodeName
  <1>3. "Summary" \in NodeName
    BY <1>2, CategoryAssumption, Zenon
  <1>4. \A x \in NodeName : <<x>> \in Seq(NodeName)
    OBVIOUS
  <1> QED
    BY <1>1, <1>2, <1>3, <1>4, Zenon

\* The categories that --dump asks for.
LEMMA CategoriesTyped ==
    ASSUME NEW wanted \in SUBSET DOMAIN Category, NEW s \in [1..Cardinality(wanted) -> wanted]
    PROVE  [k \in DOMAIN s |-> Category[s[k]]] \in Seq(NodeName)
  <1>1. PICK n \in Nat : DOMAIN Category = 1..n
    BY CategoryAssumption
  <1>2. IsFiniteSet(wanted)
    <2>1. IsFiniteSet(1..n)
      BY FS_Interval
    <2> QED
      BY <1>1, <2>1, FS_Subset
  <1>3. PICK m \in Nat : m = Cardinality(wanted)
    BY <1>2, FS_CardinalityType
  <1>4. DOMAIN s = 1..m /\ \A k \in 1..m : s[k] \in DOMAIN Category
    BY <1>3
  <1>5. [k \in DOMAIN s |-> Category[s[k]]] \in [1..m -> NodeName]
    BY <1>4, NamesTyped
  <1>6. [1..m -> NodeName] \subseteq Seq(NodeName)
    BY SeqDef, Zenon
  <1> QED
    BY <1>5, <1>6, Zenon

\* A step that leaves the report alone.
LEMMA RepKeep ==
    ASSUME RepInv, UNCHANGED <<opts, targets, current, count, root, header, out, found>>,
           phase' \in PerFile => phase \in PerFile,
           phase' \in {"load", "args"} => phase \in {"load", "args"},
           phase' \in PerFile \cup {"load", "args", "next", "unload", "exited", "aborted"}
    PROVE  RepInv'
  <1>1. RepTypes'
    BY DEF RepInv, RepTypes
  <1>2. Ordered'
    BY DEF RepInv, RepParts, Ordered, Says, PrintedSays
  <1>3. AtFile => AtFile'
    BY DEF AtFile
  <1> QED
    BY <1>1, <1>2, <1>3 DEF RepInv, RepParts

\* A step that adds nodes for the current file.
LEMMA RepAdd ==
    ASSUME RepInv, phase \in PerFile, phase' \in PerFile, NEW names \in Seq(NodeName), AddAll(names),
           UNCHANGED <<opts, targets, current, count, header, out>>
    PROVE  RepInv'
  <1>1. RepTypes /\ Ordered /\ AtFile
    BY DEF RepInv, RepParts
  <1>2. /\ root' \in Seq(FileNode) /\ found' \in [Path -> Seq(NodeName)]
        /\ Ordered' /\ AtFile'
    BY <1>1, AddAllKeeps
  <1>3. RepTypes'
    BY <1>1, <1>2 DEF RepTypes
  <1>4. phase' \notin {"load", "args"}
    BY DEF PerFile
  <1> QED
    BY <1>2, <1>3, <1>4 DEF RepInv, RepParts

\* A file is opened: it is the first of those that are left.
LEMMA RepOpen ==
    ASSUME RepInv, OpenFile
    PROVE  RepInv'
  <1>1. UNCHANGED <<opts, count, root, header, out, found>> /\ phase = "next"
    BY DEF OpenFile, report
  <1>2. PICK p \in targets, v \in BOOLEAN :
            /\ \A q \in targets : p <= q
            /\ targets' = targets \ {p}
            /\ current' = [path |-> p, valid |-> v]
            /\ phase' = IF v THEN "dump" ELSE "count"
    BY DEF OpenFile
  <1>3. p \in Path /\ targets \subseteq Path /\ current'.path = p /\ current' \in FileOpened
    BY <1>2 DEF RepInv, RepTypes, FileOpened
  <1>4. phase' \in PerFile
    BY <1>2 DEF PerFile
  <1>5. \A t \in targets' : t \in targets /\ p < t
    BY <1>2, <1>3, PathOrder
  <1>6. NodesBefore(root, p) /\ PrintedBefore(out, p)
    BY <1>2 DEF RepInv, RepParts, Ordered
  <1>7. \A j \in DOMAIN root : root[j].path <= p
    <2>1. \A j \in DOMAIN root : root[j] \in FileNode
      BY DEF RepInv, RepTypes
    <2>2. \A j \in DOMAIN root : root[j].path \in Path /\ root[j].path < p
      BY <1>6, <2>1 DEF FileNode, NodesBefore
    <2> QED
      BY <1>3, <2>2, PathOrder
  <1>8. AtFile'
    BY <1>1, <1>3, <1>5, <1>6, <1>7 DEF AtFile
  <1>9. Ordered'
    BY <1>1, <1>5 DEF RepInv, RepParts, Ordered, Says, PrintedSays
  <1>10. RepTypes'
    BY <1>1, <1>3, <1>4, <1>5 DEF RepInv, RepTypes
  <1>11. phase' \notin {"load", "args"}
    BY <1>4 DEF PerFile
  <1> QED
    BY <1>8, <1>9, <1>10, <1>11 DEF RepInv, RepParts

\* Every step keeps RepInv.
LEMMA RepStep ==
    ASSUME RepInv, [Next]_vars
    PROVE  RepInv'
  <1>1. CASE \/ LoadPlugins \/ PluginsLoaded \/ BadArguments \/ NoPlugins \/ GetPlugins
             \/ PluginThrows \/ Unload \/ Ended \/ UNCHANGED vars
    <2>1. /\ UNCHANGED <<opts, targets, current, count, root, header, out, found>>
          /\ \/ phase' = phase
             \/ phase = "load" /\ phase' = "args"
             \/ phase = "plugins" /\ phase' \in {"count", "analysis"}
             \/ phase' \in {"exited", "aborted"}
      BY <1>1 DEF LoadPlugins, PluginsLoaded, BadArguments, NoPlugins, GetPlugins,
                  PluginThrows, Unload, Ended, vars, report
    <2>2. phase \in PerFile \cup {"load", "args", "next", "unload", "exited", "aborted"}
      BY DEF RepInv, RepTypes
    <2>3. /\ phase' \in PerFile => phase \in PerFile
          /\ phase' \in {"load", "args"} => phase \in {"load", "args"}
          /\ phase' \in PerFile \cup {"load", "args", "next", "unload", "exited", "aborted"}
      BY <2>1, <2>2 DEF PerFile
    <2> QED
      BY <2>1, <2>3, RepKeep
  <1>2. CASE GoodArguments
    <2>1. /\ UNCHANGED <<opts, current, count, root, header, out, found>>
          /\ phase = "args" /\ phase' = "next" /\ targets' \in SUBSET Path
      BY <1>2 DEF GoodArguments, report
    <2>2. out = <<>> /\ root = <<>>
      BY <2>1 DEF RepInv, RepParts
    <2>3. DOMAIN root = {} /\ DOMAIN out = {}
      BY <2>2
    <2>4. PrintedOf(out) = {}
      BY <2>3 DEF PrintedOf
    <2>5. \A t : NodesBefore(root, t) /\ PrintedBefore(out, t)
      BY <2>3, <2>4 DEF NodesBefore, PrintedBefore
    <2>6. Ordered'
      BY <2>1, <2>5 DEF RepInv, RepParts, Ordered, Says, PrintedSays
    <2>7. RepTypes'
      BY <2>1 DEF RepInv, RepTypes
    <2> QED
      BY <2>1, <2>6, <2>7 DEF RepInv, RepParts, PerFile
  <1>3. CASE OpenFile
    BY <1>3, RepOpen
  <1>4. CASE Dump
    <2>1. /\ UNCHANGED <<opts, targets, current, count, header, out>>
          /\ phase \in PerFile /\ phase' \in PerFile
      BY <1>4 DEF Dump, PerFile
    <2>2. PICK names \in Seq(NodeName) : AddAll(names)
      <3>1. CASE opts.dump
        <4>a. PICK wanted \in SUBSET DOMAIN Category :
                  \E s \in [1..Cardinality(wanted) -> wanted] :
                      AddAll([k \in DOMAIN s |-> Category[s[k]]])
          BY <1>4, <3>1, Zenon DEF Dump
        <4>1. PICK s \in [1..Cardinality(wanted) -> wanted] :
                  AddAll([k \in DOMAIN s |-> Category[s[k]]])
          BY <4>a
        <4> QED
          BY <4>1, CategoriesTyped, Zenon
      <3>2. CASE ~opts.dump
        <4>1. PICK s \in {<<>>, <<"Summary">>} : AddAll(s)
          BY <1>4, <3>2, Zenon DEF Dump
        <4>2. <<>> \in Seq(NodeName)
          OBVIOUS
        <4>3. <<"Summary">> \in Seq(NodeName)
          BY NamesTyped, Zenon
        <4> QED
          BY <4>1, <4>2, <4>3, Zenon
      <3> QED
        BY <3>1, <3>2
    <2> QED
      BY <2>1, <2>2, RepAdd
  <1>5. CASE DumpHashes
    <2>1. /\ UNCHANGED <<opts, targets, current, count, header, out>>
          /\ phase = "hashes" /\ phase' = "plugins"
      BY <1>5 DEF DumpHashes
    <2>2. phase \in PerFile /\ phase' \in PerFile /\ phase' \notin {"load", "args"}
      BY <2>1 DEF PerFile
    <2>3. CASE opts.hashes
      <3>1. AddAll(<<"Hashes">>) /\ <<"Hashes">> \in Seq(NodeName)
        BY <1>5, <2>3, NamesTyped, Zenon DEF DumpHashes
      <3> QED
        BY <2>1, <2>2, <3>1, RepAdd
    <2>4. CASE ~opts.hashes
      <3>1. UNCHANGED <<root, found>>
        BY <1>5, <2>4 DEF DumpHashes
      <3>2. phase' \in PerFile \cup {"load", "args", "next", "unload", "exited", "aborted"}
        BY <2>2
      <3> QED
        BY <2>1, <2>2, <3>1, <3>2, RepKeep
    <2> QED
      BY <2>3, <2>4
  <1>6. CASE RunPlugins
    <2>1. /\ UNCHANGED <<opts, targets, current, count, header, out>>
          /\ phase \in PerFile /\ phase' \in PerFile
      BY <1>6 DEF RunPlugins, PerFile
    <2>a. AddAll(<<"Plugins">>)
      BY <1>6, Zenon DEF RunPlugins
    <2>2. <<"Plugins">> \in Seq(NodeName)
      BY NamesTyped, Zenon
    <2> QED
      BY <2>1, <2>2, <2>a, RepAdd
  <1>7. CASE EndOfFile
    <2>1. /\ UNCHANGED <<opts, targets, found>> /\ phase' = "next" /\ current' = NoFile
          /\ count' = count + 1
      BY <1>7 DEF EndOfFile
    <2>2. RepTypes /\ Ordered
      BY DEF RepInv, RepParts
    <2>3. out' \in Seq(Token) /\ root' \in Seq(FileNode) /\ header' \in BOOLEAN /\ Ordered'
      <3>1. CASE Format(FALSE)
        <4>1. out' \in Seq(Token) /\ root' = <<>> /\ Ordered'
          BY <2>1, <2>2, <3>1, FormatKeeps
        <4>2. header' \in BOOLEAN
          BY <3>1 DEF Format
        <4>3. root' \in Seq(FileNode)
          BY <4>1, EmptySeq
        <4> QED
          BY <4>1, <4>2, <4>3, Zenon
      <3>2. CASE UNCHANGED <<out, header, root>>
        BY <2>1, <2>2, <3>2 DEF RepTypes, Ordered, Says, PrintedSays
      <3> QED
        BY <1>7, <3>1, <3>2 DEF EndOfFile
    <2>4. current' \in FileOpened
      BY <2>1 DEF NoFile, FileOpened
    <2>5. RepTypes'
      BY <2>1, <2>2, <2>3, <2>4 DEF RepTypes
    <2> QED
      BY <2>1, <2>3, <2>5 DEF RepInv, RepParts, PerFile
  <1>8. CASE FinalFormat
    <2>1. UNCHANGED <<opts, targets, current, count, found>> /\ phase' = "unload" /\ Format(TRUE)
      BY <1>8 DEF FinalFormat
    <2>2. RepTypes /\ Ordered
      BY DEF RepInv, RepParts
    <2>3. out' \in Seq(Token) /\ root' = <<>> /\ Ordered'
      BY <2>1, <2>2, FormatKeeps
    <2>4. header' \in BOOLEAN
      BY <2>1 DEF Format
    <2>a. root' \in Seq(FileNode)
      BY <2>3, EmptySeq
    <2>5. RepTypes'
      BY <2>1, <2>2, <2>3, <2>4, <2>a DEF RepTypes
    <2> QED
      BY <2>1, <2>3, <2>5 DEF RepInv, RepParts, PerFile
  <1> QED
    BY <1>1, <1>2, <1>3, <1>4, <1>5, <1>6, <1>7, <1>8 DEF Next, Step

LEMMA RepAlways == Spec => []RepInv
  BY RepInit, RepStep, PTL DEF Spec

\* main() (main.cpp:478-533): the types, for every number of files and every number of
\* plugins; the report only has nodes that some option asks for, under files that were
\* given.
THEOREM ManalyzeIsTyped == Spec => []TypeOK
  <1>1. RepInv /\ RegInv => TypeOK
    BY DEF RepInv, RepTypes, RegInv, RegTypes, TypeOK, PerFile, FileOpened, Entry
  <1> QED
    BY <1>1, RepAlways, RegAlways, PTL

\* OutputFormatter and main() (main.cpp:560-606): whatever the number of files and the
\* interval between two flushes, all that was found in a file is in one place, printed
\* or waiting, and files are printed in the order of the set of targets.
THEOREM NothingIsLostOrSplit == Spec => []NothingLostNorSplit
  <1>1. RepInv => NothingLostNorSplit
    <2>1. SUFFICES ASSUME RepInv PROVE NothingLostNorSplit
      OBVIOUS
    <2>2. Printed = PrintedOf(out)
      BY DEF Printed, PrintedOf
    <2>3. /\ Says(root) /\ Rising(root) /\ PrintedSays(out) /\ PrintedRises(out)
          /\ \A j \in DOMAIN root : PrintedBefore(out, root[j].path)
          /\ \A p \in Path : found[p] # <<>> => HasNode(root, p) \/ IsPrinted(out, p)
      BY <2>1 DEF RepInv, RepParts, Ordered
    <2>4. \A k \in Printed, j \in DOMAIN root : out[k].path < root[j].path
      BY <2>2, <2>3 DEF PrintedBefore
    <2>5. \A k \in Printed : out[k].path \in Path /\ out[k].nodes = found[out[k].path]
      BY <2>2, <2>3 DEF PrintedSays
    <2>6. \A k \in Printed, j \in DOMAIN root : out[k].path # root[j].path
      <3>1. \A j \in DOMAIN root : root[j] \in FileNode
        BY <2>1 DEF RepInv, RepTypes
      <3>2. \A j \in DOMAIN root : root[j].path \in Path
        BY <3>1 DEF FileNode
      <3> QED
        BY <2>4, <2>5, <3>2, PathOrder
    <2>7. \A p \in Path : found[p] # <<>> =>
              \/ /\ \E k \in Printed : out[k].path = p
                 /\ ~\E j \in DOMAIN root : root[j].path = p
              \/ /\ \E j \in DOMAIN root : root[j].path = p
                 /\ ~\E k \in Printed : out[k].path = p
      BY <2>2, <2>3, <2>6, SMT DEF HasNode, IsPrinted
    <2>8. \A j \in DOMAIN root : root[j].nodes = found[root[j].path]
      BY <2>3 DEF Says
    <2>9. \A k, l \in Printed : k < l => out[k].path < out[l].path
      BY <2>2, <2>3 DEF PrintedRises
    <2>10. \A j, m \in DOMAIN root : j < m => root[j].path < root[m].path
      BY <2>3 DEF Rising
    <2> QED
      BY <2>4, <2>5, <2>7, <2>8, <2>9, <2>10, Zenon DEF NothingLostNorSplit
  <1> QED
    BY <1>1, RepAlways, PTL

-------------------------------------------------------------------------------
(* The JSON document.                                                      *)

\* The inductive invariant, for the JSON formatter.  As long as fewer than FlushEvery
\* files are done nothing is printed; between the last of them and the next file the
\* opening brace and their objects are, and the tree is empty.
JsonParts ==
    /\ phase \in {"load", "args"} => count = 0
    /\ opts.json =>
        /\ (count < FlushEvery /\ phase \notin {"unload", "exited", "aborted"}) =>
               header /\ out = <<>>
        /\ (count = FlushEvery /\ phase = "next") =>
               /\ ~header /\ root = <<>>
               /\ \E r \in Seq(FileNode) : out = <<Open>> \o JsonBody(r)
        /\ (count <= FlushEvery /\ phase = "unload") => WellFormed(out)

\* The text of a comma.
CommaTok == ","

\* What concatenation does, for tokens.
LEMMA TokenConcat ==
    ASSUME NEW u \in Seq(Token), NEW z \in Seq(Token), NEW s, s = u \o z
    PROVE  /\ s \in Seq(Token) /\ Len(s) = Len(u) + Len(z)
           /\ \A i \in 1..(Len(u) + Len(z)) : s[i] = IF i <= Len(u) THEN u[i] ELSE z[i - Len(u)]
  BY ConcatProperties

LEMMA CommaIs == Comma.tok = CommaTok
  BY Zenon DEF Comma, CommaTok

\* An opening brace, what is printed for some nodes, and a closing brace.
LEMMA JsonDocument ==
    ASSUME NEW r \in Seq(FileNode), NEW s, s = (<<Open>> \o JsonBody(r)) \o <<Close>>
    PROVE  WellFormed(s)
  <1>1. PICK n \in Nat : n = Len(r) /\ DOMAIN r = 1..n
    OBVIOUS
  <1>2. PICK N \in Nat : N = IF n = 0 THEN 0 ELSE 2 * n - 1
    OBVIOUS
  <1>3. r = <<>> <=> n = 0
    BY <1>1
  <1>4. PICK b : b = JsonBody(r)
    OBVIOUS
  <1>5. b = [k \in 1..N |-> IF k % 2 = 1 THEN Object(r[(k + 1) \div 2]) ELSE Comma]
    BY <1>1, <1>2, <1>3, <1>4 DEF JsonBody
  <1>6. b \in Seq(Token)
    BY <1>4, JsonLists
  <1>7. DOMAIN b = 1..N
    BY <1>5
  <1>8. Len(b) = N
    BY <1>6, <1>7
  <1>9. ASSUME NEW k \in 1..N PROVE b[k].tok = (IF k % 2 = 1 THEN "file" ELSE CommaTok)
    <2>1. CASE k % 2 = 1
      <3>1. (k + 1) \div 2 \in 1..n
        BY <1>2, <2>1
      <3>2. r[(k + 1) \div 2] \in FileNode
        BY <1>1, <3>1
      <3>3. b[k] = Object(r[(k + 1) \div 2])
        BY <1>5, <2>1
      <3> QED
        BY <2>1, <3>2, <3>3, ObjectTyped
    <2>2. CASE k % 2 # 1
      <3>1. b[k] = Comma
        BY <1>5, <2>2
      <3> QED
        BY <2>2, <3>1, CommaIs
    <2> QED
      BY <2>1, <2>2
  <1>10. PICK x \in Token, y \in Token : x = Open /\ y = Close
    BY Tokens
  <1>11. <<x>> \in Seq(Token) /\ Len(<<x>>) = 1 /\ <<x>>[1] = x
         /\ <<y>> \in Seq(Token) /\ Len(<<y>>) = 1 /\ <<y>>[1] = y
    OBVIOUS
  <1>12. PICK u : u = <<x>> \o b
    OBVIOUS
  <1>13. /\ u \in Seq(Token) /\ Len(u) = 1 + N
         /\ \A i \in 1..(1 + N) : u[i] = IF i <= 1 THEN <<x>>[i] ELSE b[i - 1]
    BY <1>6, <1>8, <1>11, <1>12, ConcatProperties
  <1>14. s = u \o <<y>>
    BY <1>4, <1>10, <1>12
  <1>15. /\ s \in Seq(Token) /\ Len(s) = (1 + N) + 1
         /\ \A i \in 1..((1 + N) + 1) : s[i] = IF i <= 1 + N THEN u[i] ELSE <<y>>[i - (1 + N)]
    <2>1. PICK z \in Seq(Token) : z = <<y>> /\ Len(z) = 1
      BY <1>11
    <2>2. s = u \o z
      BY <1>14, <2>1
    <2>3. /\ s \in Seq(Token) /\ Len(s) = Len(u) + Len(z)
          /\ \A i \in 1..(Len(u) + Len(z)) : s[i] = IF i <= Len(u) THEN u[i] ELSE z[i - Len(u)]
      <3>1. u \in Seq(Token)
        BY <1>13
      <3> QED
        BY <2>2, <3>1, TokenConcat, ZenonT(40)
    <2>4. Len(u) = 1 + N /\ Len(z) = 1
      BY <1>13, <2>1
    <2> QED
      BY <2>1, <2>3, <2>4
  <1>16. PICK M \in Nat : M = N + 2 /\ Len(s) = M
    BY <1>15
  <1>17. s[1] = Open
    BY <1>10, <1>11, <1>13, <1>15
  <1>18. s[M] = Close
    <2>1. M \in 1..((1 + N) + 1) /\ ~(M <= 1 + N) /\ M - (1 + N) = 1
      BY <1>16
    <2> QED
      BY <1>10, <1>11, <1>15, <2>1
  <1>19. M >= 2 /\ (M > 2 => M % 2 = 1)
    BY <1>2, <1>16
  <1>20. ASSUME NEW k \in 2..(M - 1) PROVE s[k].tok = (IF k % 2 = 0 THEN "file" ELSE CommaTok)
    <2>1. k - 1 \in 1..N /\ k \in 1..((1 + N) + 1) /\ k <= 1 + N /\ k \in 1..(1 + N) /\ ~(k <= 1)
      BY <1>16
    <2>2. s[k] = b[k - 1]
      BY <1>13, <1>15, <2>1
    <2>3. (k - 1) % 2 = 1 <=> k % 2 = 0
      OBVIOUS
    <2> QED
      BY <1>9, <2>1, <2>2, <2>3
  <1>21. /\ Len(s) >= 2 /\ s[1] = Open /\ s[Len(s)] = Close
         /\ Len(s) > 2 => Len(s) % 2 = 1
         /\ \A k \in 2..(Len(s) - 1) : s[k].tok = (IF k % 2 = 0 THEN "file" ELSE CommaTok)
    BY <1>16, <1>17, <1>18, <1>19, <1>20
  <1> QED
    BY <1>21, Zenon DEF WellFormed, CommaTok

\* When the first flush comes.
LEMMA FirstFlush ==
    ASSUME NEW F \in Nat \ {0}, NEW c \in Nat
    PROVE  /\ c + 1 < F => (c + 1) % F # 0
           /\ c + 1 = F => (c + 1) % F = 0
  OBVIOUS

\* The three cases in which JsonParts says something about the next state.
LEMMA JsonFlush ==
    ASSUME RepInv, JsonParts, opts.json, EndOfFile, count + 1 = FlushEvery
    PROVE  /\ ~header' /\ root' = <<>>
           /\ \E r \in Seq(FileNode) : out' = <<Open>> \o JsonBody(r)
  <1>1. RepTypes /\ root \in Seq(FileNode)
    BY DEF RepInv, RepTypes
  <1>2. PICK c \in Nat : c = count /\ c + 1 = FlushEvery /\ phase = "count"
    BY DEF RepInv, RepTypes, EndOfFile
  <1>3. header /\ out = <<>>
    <2>1. c < FlushEvery
      BY <1>2, FlushAssumption
    <2> QED
      BY <1>2, <2>1 DEF JsonParts
  <1>4. Format(FALSE)
    <2>1. (count + 1) % FlushEvery = 0
      BY <1>2, FlushAssumption, FirstFlush
    <2>2. count' = count + 1 /\ IF count' % FlushEvery = 0 THEN Format(FALSE) ELSE UNCHANGED <<out, header, root>>
      BY DEF EndOfFile
    <2> QED
      BY <2>1, <2>2, Zenon
  <1>5. PICK h \in Seq(Token), b \in Seq(Token), c1 \in Seq(Token) :
            out' = ((out \o h) \o b) \o c1 /\ h = <<Open>> /\ b = JsonBody(root) /\ c1 = <<>>
    <2>1. \E h, b, c1 \in Seq(Token) :
               /\ out' = ((out \o h) \o b) \o c1
               /\ NoFiles(h) /\ Lists(b, root) /\ NoFiles(c1)
               /\ h = IF ~header THEN <<>> ELSE IF opts.json THEN <<Open>> ELSE <<Banner>>
               /\ b = IF opts.json THEN JsonBody(root) ELSE RawBody(root)
               /\ c1 = IF opts.json /\ FALSE THEN <<Close>> ELSE <<>>
      BY <1>1, <1>4, FormatParts
    <2> QED
      BY <1>3, <2>1, Zenon
  <1>6. out' = h \o b
    <2>1. out \o h = h
      BY <1>3, ConcatEmptySeq
    <2>2. h \o b \in Seq(Token)
      BY ConcatProperties
    <2>3. (h \o b) \o c1 = h \o b
      BY <1>5, <2>2, ConcatEmptySeq
    <2> QED
      BY <1>5, <2>1, <2>3, Zenon
  <1>7. out' = <<Open>> \o JsonBody(root)
    BY <1>5, <1>6, Zenon
  <1>8. ~header' /\ root' = <<>>
    BY <1>4 DEF Format
  <1> QED
    BY <1>1, <1>7, <1>8, Zenon

\* Nothing is printed for an empty tree.
LEMMA JsonEmpty == JsonBody(<<>>) = <<>>
  <1>1. PICK b : b = JsonBody(<<>>)
    OBVIOUS
  <1>2. <<>> \in Seq(FileNode)
    OBVIOUS
  <1>3. b \in Seq(Token)
    BY <1>1, <1>2, JsonLists
  <1>4. b = [k \in 1..0 |-> IF k % 2 = 1 THEN Object(<<>>[(k + 1) \div 2]) ELSE Comma]
    BY <1>1 DEF JsonBody
  <1>5. DOMAIN b = {}
    BY <1>4
  <1>6. Len(b) = 0
    BY <1>3, <1>5
  <1> QED
    BY <1>1, <1>3, <1>6, EmptySeq

LEMMA JsonEnd ==
    ASSUME RepInv, JsonParts, opts.json, FinalFormat, count <= FlushEvery
    PROVE  WellFormed(out')
  <1>1. RepTypes /\ root \in Seq(FileNode)
    BY DEF RepInv, RepTypes
  <1>2. phase = "next" /\ Format(TRUE)
    BY DEF FinalFormat
  <1>3. PICK h \in Seq(Token), b \in Seq(Token), c \in Seq(Token) :
            /\ out' = ((out \o h) \o b) \o c
            /\ h = (IF ~header THEN <<>> ELSE <<Open>>) /\ b = JsonBody(root) /\ c = <<Close>>
    <2>1. \E h, b, c \in Seq(Token) :
               /\ out' = ((out \o h) \o b) \o c
               /\ NoFiles(h) /\ Lists(b, root) /\ NoFiles(c)
               /\ h = IF ~header THEN <<>> ELSE IF opts.json THEN <<Open>> ELSE <<Banner>>
               /\ b = IF opts.json THEN JsonBody(root) ELSE RawBody(root)
               /\ c = IF opts.json /\ TRUE THEN <<Close>> ELSE <<>>
      BY <1>1, <1>2, FormatParts
    <2> QED
      BY <2>1, Zenon
  <1>4. CASE count < FlushEvery
    <2>1. header /\ out = <<>>
      BY <1>2, <1>4 DEF JsonParts
    <2>2. h = <<Open>>
      BY <1>3, <2>1, Zenon
    <2>3. out \o h = h
      BY <2>1, ConcatEmptySeq
    <2>4. out' = (<<Open>> \o JsonBody(root)) \o <<Close>>
      BY <1>3, <2>2, <2>3, Zenon
    <2> QED
      BY <1>1, <2>4, JsonDocument, Zenon
  <1>5. CASE count = FlushEvery
    <2>1. ~header /\ root = <<>> /\ \E r \in Seq(FileNode) : out = <<Open>> \o JsonBody(r)
      BY <1>2, <1>5, Zenon DEF JsonParts
    <2>2. PICK r \in Seq(FileNode) : out = <<Open>> \o JsonBody(r)
      BY <2>1
    <2>3. h = <<>> /\ b = <<>>
      BY <1>3, <2>1, JsonEmpty, Zenon
    <2>4. out \in Seq(Token)
      BY <1>1 DEF RepTypes
    <2>5. out \o h = out /\ out \o b = out
      BY <2>3, <2>4, ConcatEmptySeq
    <2>6. out' = (<<Open>> \o JsonBody(r)) \o <<Close>>
      BY <1>3, <2>2, <2>5, Zenon
    <2> QED
      BY <2>6, JsonDocument, Zenon
  <1>6. count < FlushEvery \/ count = FlushEvery
    <2>1. PICK k \in Nat : k = count /\ k <= FlushEvery
      BY <1>1 DEF RepTypes
    <2> QED
      BY <2>1, FlushAssumption
  <1> QED
    BY <1>4, <1>5, <1>6

\* A step that neither counts nor prints.
LEMMA JsonKeep ==
    ASSUME JsonParts, UNCHANGED <<opts, count, header, out>>,
           phase' \in {"load", "args"} => phase \in {"load", "args"},
           phase' \notin {"unload", "exited", "aborted"} => phase \notin {"unload", "exited", "aborted"},
           phase' = "next" => (phase = "next" /\ UNCHANGED root) \/ phase = "args",
           phase' = "unload" => phase = "unload"
    PROVE  JsonParts'
  <1>1. phase = "args" => count # FlushEvery
    BY FlushAssumption DEF JsonParts
  <1> QED
    BY <1>1 DEF JsonParts

\* Every step keeps JsonParts.
LEMMA JsonStep ==
    ASSUME RepInv, JsonParts, [Next]_vars
    PROVE  JsonParts'
  <1>1. CASE \/ LoadPlugins \/ PluginsLoaded \/ BadArguments \/ GoodArguments \/ OpenFile
             \/ Dump \/ DumpHashes \/ NoPlugins \/ GetPlugins \/ RunPlugins
             \/ PluginThrows \/ Unload \/ Ended \/ UNCHANGED vars
    <2>1. UNCHANGED <<opts, count, header, out>>
      BY <1>1 DEF LoadPlugins, PluginsLoaded, BadArguments, GoodArguments, OpenFile, Dump,
                  DumpHashes, NoPlugins, GetPlugins, RunPlugins, PluginThrows, Unload, Ended,
                  vars, report
    <2>2. \/ UNCHANGED <<phase, root>>
          \/ phase = "load" /\ phase' = "args"
          \/ phase = "args" /\ phase' = "next"
          \/ /\ phase \notin {"unload", "exited", "aborted"}
             /\ phase' \in {"dump", "count", "hashes", "plugins", "analysis"}
          \/ phase' \in {"exited", "aborted"}
      BY <1>1 DEF LoadPlugins, PluginsLoaded, BadArguments, GoodArguments, OpenFile, Dump,
                  DumpHashes, NoPlugins, GetPlugins, RunPlugins, PluginThrows, Unload, Ended,
                  vars, report
    <2>3. /\ phase' \in {"load", "args"} => phase \in {"load", "args"}
          /\ phase' \notin {"unload", "exited", "aborted"} => phase \notin {"unload", "exited", "aborted"}
          /\ phase' = "next" => (phase = "next" /\ UNCHANGED root) \/ phase = "args"
          /\ phase' = "unload" => phase = "unload"
      BY <2>2
    <2> QED
      BY <2>1, <2>3, JsonKeep
  <1>2. CASE EndOfFile
    <2>1. UNCHANGED opts /\ phase = "count" /\ phase' = "next" /\ count' = count + 1
      BY <1>2 DEF EndOfFile
    <2>2. PICK c \in Nat : c = count
      BY DEF RepInv, RepTypes
    <2>3. ASSUME opts.json, count + 1 = FlushEvery
          PROVE  /\ ~header' /\ root' = <<>>
                 /\ \E r \in Seq(FileNode) : out' = <<Open>> \o JsonBody(r)
      BY <1>2, <2>3, JsonFlush
    <2>4. ASSUME opts.json, count + 1 < FlushEvery PROVE header' /\ out' = <<>>
      <3>1. c < FlushEvery /\ (c + 1) % FlushEvery # 0
        BY <2>2, <2>4, FlushAssumption, FirstFlush
      <3>2. header /\ out = <<>>
        BY <2>1, <2>2, <2>4, <3>1 DEF JsonParts
      <3>3. UNCHANGED <<out, header, root>>
        <4>1. count' % FlushEvery # 0
          BY <2>1, <2>2, <3>1
        <4> QED
          BY <1>2, <4>1 DEF EndOfFile
      <3> QED
        BY <3>2, <3>3
    <2> QED
      BY <2>1, <2>3, <2>4, Zenon DEF JsonParts
  <1>3. CASE FinalFormat
    <2>1. UNCHANGED <<opts, count>> /\ phase' = "unload"
      BY <1>3 DEF FinalFormat
    <2>2. ASSUME opts.json, count <= FlushEvery PROVE WellFormed(out')
      BY <1>3, <2>2, JsonEnd
    <2>3. WellFormed(out)' <=> WellFormed(out')
      BY Zenon DEF WellFormed
    <2> QED
      BY <2>1, <2>2, <2>3 DEF JsonParts
  <1> QED
    BY <1>1, <1>2, <1>3 DEF Next, Step

\* JsonFormatter::format and main() (main.cpp:573-606): for every interval between two
\* flushes, the report on no more files than that is one JSON document, also when the
\* last file is the one that makes main() flush.
THEOREM ShortJsonIsWellFormed == Spec => []SmallJsonWellFormed
  <1>1. Init => JsonParts
    <2>1. SUFFICES ASSUME Init PROVE JsonParts
      OBVIOUS
    <2>2. phase = "load" /\ count = 0 /\ header /\ out = <<>>
      BY <2>1 DEF Init
    <2> QED
      BY <2>2 DEF JsonParts
  <1>2. JsonParts => SmallJsonWellFormed
    BY DEF JsonParts, SmallJsonWellFormed
  <1> QED
    BY <1>1, <1>2, JsonStep, RepAlways, PTL DEF Spec
===============================================================================
