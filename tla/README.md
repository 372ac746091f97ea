# Manalyze: a verification project

Manalyze is a static analyser for PE executables. It parses a file of unknown
origin, dumps what it finds, runs a set of plugins over it in threads, and
prints a report as text or JSON. This directory holds TLA+ models of the parts
of it that are hard to test, the TLC configurations that check them, and TLAPS
proofs of the most important properties for every size of the input.

Paths below are relative to the repository. `PROJECT.json` maps every
definition to the lines it models and lists the hazards, the mutants and the
findings.

## 1. Inventory

| Part | State it keeps | Operations | Interaction |
|---|---|---|---|
| Main program, `src/main.cpp` | the set of files, the options, a count | `main`, `perform_analysis`, `handle_dump_option`, `handle_plugins_option` | one PE per file; calls the dumpers; starts one thread per plugin and joins them; prints every 1000 files |
| PE, `manape/pe.cpp`, `section.cpp` | one `FILE*` and its cursor, headers, sections, the parsed tables | constructor, header and directory parsers, `rva_to_offset`, `_reach_directory`, `get_raw_bytes`, `get_overlay_bytes`, `Section::get_raw_data` | the parsers run in the constructor; the reads are called by dumpers and by all plugin threads on the one handle |
| Imports, `manape/imports.cpp`, `src/import_hash.cpp` | the libraries with their functions, at most one delay-loaded | `_parse_imports`, `_parse_delayed_imports`, `get_imported_functions`, `find_imports`, `hash_imports` | asked again by name by the dump, the plugins and the hash |
| Exports, TLS, debug | vectors and optionals in the PE | one parser each | each moves the cursor to its table; all sizes and offsets are claims of the file |
| Resources, `manape/resources.cpp` | a list of places and sizes | `_parse_resources`, `get_raw_data`, `interpret_as`, `reconstruct_icon` | a resource opens the file again, by path |
| Relocations, certificates, load configuration, rich header | vectors and optionals in the PE | one parser each | same |
| Output tree, `manacommons/output_tree_node.cpp` | nodes with a name, a value or children, shared by pointer | `append`, `find_node`, constructors | `append` renames duplicates, in place |
| Plugin results, `plugin_framework/result.cpp` | a tree with the level, the summary and the information | `set_level`, `raise_level`, `set_summary`, `add_information`, `merge` | found again by name; merged nodes are shared |
| Formatters, `output_formatter.h/.cpp` | the tree of the files not yet printed, a static `print_header` | `add_data`, `find_node`, `format` | filled by dumpers and `handle_plugins_option`, cleared by `format` |
| Dumpers, `src/dump.cpp` | none | one per category | read the PE, give a list to `add_data` |
| Plugin registry, `plugin_framework/plugin_manager.*` | the registered plugins and their libraries | `load`, `load_all`, `unload_all`, `get_plugins` | instances live in threads; libraries are closed at the end of `main` |
| Plugins, `plugins/` | their configuration | `analyze`; `get_authenticode_hash` | read the PE, return a result, which is shown if it has information |
| Configuration, tables, utilities | none that changes | | |

What is hard in it: the plugin threads share one file cursor; a thread has a
raw pointer to a PE on another thread's stack; an exception in a thread ends
the process; the report is printed in batches of a size no test reaches; the
parsers compute with unsigned numbers taken from the file; nodes are shared and
renamed in place, and found again by name.

What makes each part correct:

* the analysis: bytes delivered are the bytes asked for, the report does not
  depend on the schedule, no thread outlives the PE, the analysis ends;
* the main loop: nothing found is lost, split or printed twice, the output is a
  document, and no plugin's library is closed under something it has made;
* a parser: it returns, it stays in step with the file, it keeps only what is
  whole and within the file, an error costs no more than what follows it, and
  the questions asked of its result get consistent answers;
* a plugin: what it concludes is in the report, under a summary that is about it;
* the report: a tree, with distinct names in every list, that nothing drops out of.

## 2. Modules

| Module | Models | Used by |
|---|---|---|
| `PluginReport` | abstract: the plugins of one file, run to an outcome each, and the node that is published | refined by `PluginAnalysis` |
| `PluginAnalysis` | `handle_plugins_option`, the plugin threads, and every `fseek` and `fread` on the shared handle | run `plugin_analysis`, `plugin_analysis_race` |
| `PluginAnalysisProofs` | proofs about the threads, and the refinement | |
| `Manalyze` | `main`, `perform_analysis`, both formatters' `format`, `add_data`; uses `PluginRegistry` | run `manalyze`, `manalyze_json` |
| `PluginRegistry` | `PluginManager`: `load` with every refusal and its local variables, `get_plugins`, `unload_all` | `Manalyze` |
| `FileBounds` | constants shared by the parsers: the modulus, the size of the table, the bytes of the file | `Relocations`, `Certificates`, `Directories` |
| `PEHeaders` | the constructor of `PE`: the four headers, the COFF symbols and the string table | `Directories` |
| `Addresses` | `rva_to_offset`, `_va_to_offset`, `find_section`, `_reach_directory` | `Directories` |
| `Imports`, `Exports`, `DebugInfo`, `Tls` | one parser each, with the queries and the dump of what it keeps | `Directories` |
| `Relocations`, `Certificates`, `LoadConfig`, `RichHeader` | one parser each | `Directories` |
| `ResourceTree`, `VersionInfo`, `Icons` | the walk over the resources and their reads, the version information, `reconstruct_icon` | `Directories` |
| `AuthenticodeDigest` | `get_authenticode_hash` | `Directories` |
| `Directories` | the constructor, `_parse_directories` and the calls on demand: one call of one parser | runs `directories`, `certificates_all`, `load_config_tail`, `section_names` |
| `DirectoriesProofs` | proofs about relocations and certificates | `HeaderProofs` |
| `HeaderProofs` | proofs about the headers, addresses, the load configuration and the rich header | `SymbolProofs` |
| `SymbolProofs` | proofs about imports, exports and the import hash | `ResourceProofs` |
| `ResourceProofs` | proofs about TLS, icons, the digest, debug and version information, the tree of resources; the types of all parsers and the ranks their steps lower | |
| `Verdicts` | `analyze` of the fourteen plugins, reduced to what they conclude, and the test that decides what is shown | runs `verdicts`, `verdicts_information` |
| `OutputTree` | nodes, `find_node`, `append` with its renaming, as operators on a heap | `PluginResult`, `FileReport` |
| `PluginResult` | `plugin::Result` | `FileReport` |
| `FileReport` | the report of one file: dumpers, version info, a plugin's results, `add_data` | run `file_report`, `file_report_versions` |
| `ManalyzeProofs`, `VerdictsProofs`, `FileReportProofs` | proofs about the module each is named after | |

`MC*` modules give the constants their values for TLC. Operators whose comment
starts with *Mutant* are deliberately wrong variants of the definition that
follows them; no specification uses them. Each property has one that breaks it.

### How state and actions correspond to the code

*PluginAnalysis.* `cursor` is the position of the one `FILE*`; `sought[t]` says
that thread `t` is between its `fseek` and its `fread`, the only two points of a
read where another thread can get in between. `Seek` holds the checks before the
`fseek`, with the 32-bit sum of `section.cpp:80` (`% Wrap`); `Read` the `fread`
and the check of its count. Bytes are abstracted to the position they come from,
so "the right bytes" is "the right positions". `it`, `jobs`, `joined` are the
two loops of `handle_plugins_option`; `AllocationFails` is the early return of
`get_raw_data` where the vector cannot be resized, with the cursor moved and
nothing read (`starved` remembers it). `SetValue` and `Exit` are the promise and
the end of the thread, which are two steps. `Throw` and `StartFails` are the two
exceptions that nothing catches: the process stops (`aborted`).

*Manalyze.* A file is a number, a node its name, the output a sequence of
tokens: one file is one token (`Object`), whatever the formatter prints for it. `header` is the static variable in `format`. `found` is a history
variable: what was added for each file. The program starts by loading plugins:
`locals` is the stack of `PluginManager::load` (or of `handle_plugins_option`),
each variable with the libraries whose code its destructor calls, and they go
in the opposite order of their declaration; `open` is what the loader has
mapped; `history` is what was ever registered.

*Parsers.* What the file contains is what a read returns, chosen freely: so the
model has every file. A parser is a loop with a `pc`; each early return is an
action or a disjunct. Sizes are computed modulo `Wrap` wherever the code
computes them in `unsigned int` (`LengthWrap` for the 16-bit lengths of the
version information). Where the same bytes are read twice they are state: the
words of the file in `RichHeader`, the blocks of the resource section in
`ResourceTree`, and the result is compared with a declarative reading of them.
Strings, functions and libraries are model values; an import is its address and
its name, or no name and an address whose low 15 bits are the ordinal. `symbols` of
`PEHeaders` counts the COFF symbols that are read: those with a section number
beyond the sections are not kept (`pe.cpp:249`), but nothing reads the ones that
are.

*Directories.* The parsers share only the cursor, which each sets before it
reads, and none looks at what another returned (`pe.cpp:627-644`): a behaviour
is one call of one of them. The instances bind the locals of a parser to
variables of `Directories`, which several parsers use under different names.

*Verdicts.* A result is its level, whether it has information, and whether its
summary speaks of a finding. The checks of a plugin come in the order of its
`analyze`, and each may come out either way; `quiet` and `net` remember two
outcomes that the properties speak of.

*FileReport.* `heap` is the memory, nodes are indices into it, so that sharing
is visible. A name is a record of its text, the number of `info_` nodes and the
numbers that `append` has put behind it.

## 3. Runs

| Run | Expect | Shows |
|---|---|---|
| `plugin_analysis` | pass | three plugin threads and the main thread, every selection: types, right bytes while one selected plugin reads, report in registration order, no thread after the return, the analysis ends, and the refinement of `PluginReport` |
| `plugin_analysis_race` | violation | two reading plugins get each other's bytes: the doc of `get_raw_data` promises the bytes of the section or nothing |
| `manalyze` | pass | plugins loaded and refused, then five files, flush every two, with every set of options: nothing is lost or split, no instance or node outlives its library, ids of dynamic plugins are unique, the program ends |
| `manalyze_json` | violation | the file after a flush is not separated from the one before by a comma: no JSON document |
| `directories` | pass | all fourteen parsers and calls on every small table: what is kept is whole and in its place, and with one exception every call returns |
| `certificates_all` | violation | `pe.cpp:1057` rejects a certificate that another one follows |
| `load_config_tail` | violation | the `\|\|` chain at `pe.cpp:988` reads one field, the comment above says it stops when a read fails |
| `section_names` | violation | a section called `/0` does not get its name from the COFF string table, which is read later |
| `file_report` | pass | the report of a file is a tree that nothing drops out of, with distinct names but for those that the file has numbered itself |
| `file_report_versions` | violation | with two version resources the same node is in the report twice |
| `verdicts` | pass | which conclusions of which plugins reach the report, and under which summary |
| `verdicts_information` | violation | a section of high entropy raises the level without the information that the documentation requires: nothing is shown |

### Bounds

* `plugin_analysis`: `N = 3` plugins, two of which read (so that two readers
  and one that reads nothing interleave), a file of 5 bytes, `Wrap = 8`: a
  section at 6 of length 3 has a sum that wraps, one at 4 of length 4 ends past
  the file without wrapping.
* `manalyze`: two libraries and two ids, one of which a static plugin has, so
  that a library may bring a new plugin, one that is loaded already, or one of
  the wrong version; `Path` of 5 and `FlushEvery = 2`, so that there are two
  intermediate flushes and a last file after them, and also runs that end
  exactly on a flush.
* `directories`: `Wrap = 40`, `Available = 28`: large enough for two relocation
  blocks or a certificate with padding, and small enough that a `Length` below
  the header wraps past the file, as 2^32 does for a file of less than 4 GB. The
  table sizes are below, at and above the file. The load configuration has its
  real widths (it ends at 120 in a PE32 and 192 in a PE32+); `ConfigSize` has
  every value to 200 and the file ends at each border of a group of fields,
  before and after. The rich header has up to 8 words of three kinds, which is
  three pairs between the markers. The headers have their real sizes, and the
  file ends within each of them; 17 directories are one more than count. The
  imports have two libraries of two names, three kinds of entries (a function at
  two addresses, an ordinal that has a name in one library only) and a limit of
  one, so that it is reached and exceeded. The export table has more names than
  functions. A MISC structure is shorter than its header, as long, or one byte
  longer. The resources have a root and two blocks that may refer to each other
  and to the root. The lengths of version strings wrap at 24. Sections overlap,
  wrap at 40 and are out of alignment. The certificate is in the headers, right
  behind those of a PE32, of a PE32+, and further on; a read returns any part of
  a chunk.
* `verdicts`: every plugin, and one certificate, which is what
  `OneCertificate` proves.
* `file_report`: `MaxNodes = 12` nodes, shared by all phases: two lists with
  entries called "a" or "a (#2)", in any order, or a plugin with two results and
  up to three pieces of information of these names; "a (#2)", "a", "a", for which
  `append` gives one name twice, is among them. `Versions = 1` is the bound under which `SiblingsDiffer` holds
  (the run `file_report_versions` shows what happens at 2). The run stops when
  the bound is reached, hence `CHECK_DEADLOCK FALSE`; nothing is claimed about
  progress there.

### Fairness

`plugin_analysis`: weak fairness of the main thread and of every plugin thread:
the operating system schedules them all, and a join waits for a thread that can
always go on. Exceptions (`Throw`, `StartFails`) are not fair, they only may
happen. `manalyze` and `directories`: weak fairness of the step of a
single-threaded program that never waits. No other fairness is assumed.

`Terminates` of `Directories` has one exception, `Ver!Stuck`: a string of a
version resource whose rounded length is 0 is read again for ever
(`resources.cpp:564-600`). The property says that nothing else loops.

## 4. Proofs

Every invariant and action property that the passing runs check is also a
theorem, for every value of the constants. `PROJECT.json` pairs the theorems with the properties. Each proof
finds an inductive invariant, shows that the initial states have it, that every
action keeps it (one step per action), and that it implies the property.

**`PluginAnalysisProofs`** (any number of plugins, any file size, any requests,
any modulus):

* `TypeCorrect`: the type invariant. It is not inductive alone: `SoughtInv` (a
  thread between `fseek` and `fread` has a request that passed the checks) is
  needed to know that `Read` has one.
* `ReportOrder`: the report is in registration order. `ReportInv` adds that
  `jobs` is increasing and holds the selected plugins seen so far (`JobsInv`),
  that joined plugins have exited with a result (`JoinInv`), and where the
  iterators are in each phase (`PcInv`).
* `PEOutlivesThreads`: from the same invariant: at the return everything started
  has been joined.
* `SoleReaderIsSafe`: with one reader, the cursor is where the thread between
  `fseek` and `fread` left it (`HandleInv`); `UndisturbedRead` then shows that a
  read delivers what was asked, also where the bound check has wrapped: such a
  section is stopped by the count of `fread`.
* `ThreadsAreInvisible`: the refinement of `PluginReport`. A thread's
  `set_value` is the abstract step that runs the plugin, the return of
  `handle_plugins_option` the one that publishes; everything else stutters.
  `DoneInv`, that a plugin which has set its promise has no read left to do,
  makes `set_value` happen once.

**`DirectoriesProofs`** (any table, any file, any modulus above 8):

* `RelocationsWhole`, `RelocationsKeepStep`, from `RelocInv`: while a block is
  read, `left + 8 + 2 * count <= Available`, that is, all its entries were in
  the file; a block shorter than its header would need `(Wrap - 8) / 2` of them,
  more than a file below the modulus has. The cursor equation has a second form
  inside a block.
* `RelocationsStayWithinFile`, from `BytesInv`: the bytes of the blocks kept,
  those of the block being read and those left never exceed the file.
* `AtMostOneCertificate`, `CertificateInFile`, from `CertInv`: after the first
  certificate of length `C`, `remaining_bytes` is 0 or more than `Wrap - C + 1`,
  while the file has at most `Available - C` bytes left: no later `Length` is at
  least the one and at most the other.

**`HeaderProofs`**:

* `ConfigWithinStructure`, `ConfigOwnBytes`, from `ConfInv`: what has been read
  of the structure is exact up to the tail, and in the tail the cursor is at
  the first field of it or at the end of the file.
* `ValidIsComplete`, from `HdrInv`: the directories and sections read so far
  are in step with the cursor, and the cursor is within the file.
* `OffsetsAreRight`, from `AddrInv`: what is returned is `RvaToOffset` of the
  address relative to the image, which lemmas then place in the first section
  that covers it.
* `RichHeaderAlwaysRight`, from `RichInv`: no `Rich` before the cursor while
  the search goes forwards; afterwards the pairs collected are those between
  the cursor and the end, and there is no start marker among them.

**`SymbolProofs`**:

* `FailureCutsEveryList`, `ShownAreOwn`, from `ImpInv`: libraries before the
  current one are whole, those behind it empty, no library has an import twice.
* `ExportNamesAreRight`, from `ExpInv`: the names given so far are those that
  the pairs before the current one define (`NamesFollow`).
* `HashIsAlwaysSeparated`: joining two separated texts gives a separated one if
  the second starts with a comma (`JoinSeparated`); by induction over the
  libraries, so is all of it.

**`ResourceProofs`**:

* `IconsAlwaysInPlace` (`IconInv`): the offsets are chained: each is the one
  before plus that icon's size.
* `DigestIsWhole` (`DigInv`): what has been hashed at each place of the program,
  and that the cursor plus the bytes remaining is the end of the part.
* `DebugAlwaysInStep` (`DebugInv`): `saved_offset` is the place of the next
  entry, and the bytes of a name and the limit that is left are together what
  its `Length` allows.
* `VersionStringsAlwaysInStep` (`VerInv`): the cursor plus `bytes_remaining` is
  the end of the string table, and a structure off a multiple of 4 (`Askew`)
  can no longer be read.
* `ResourcesAreListedOnce` (`ResInv`): the places that are listed are different
  and fit the file, and as many handles are left open as allocations were
  refused. Unlike the next theorem it needs nothing of the offsets.
* `ResourcesFollowTree` (`TreeInv`): the list of resources is the one that the
  tree of the file defines. The property is about the end of the walk, and not
  inductive: it does not say what an unfinished walk has done. The invariant
  does: at every moment there are lists of the types, the names and the data
  entries behind the walk which, joined with the entries still to be visited,
  are the levels of the tree, and the resources are those of these data entries
  (`Visited`, `Listed`). A data entry that cannot be read drops the rest; from
  then on the data entries behind the walk are those of the tree up to the first
  one that is cut off (`Cut`). What is known of the file only grows (`Grown`), so
  that the part of the tree behind the walk stays what it was (`BelowGrown`,
  `ListedGrown`). It rests on lemmas about `FlattenSeq` (`FlattenSplit`: of two
  sequences joined it gives the two results joined) and `Once` (`SeenMore`).
* `ParsersAreTyped`: `Directories!TypeOK`, from the invariants above, one per
  parser.
* `EveryStepCounts`: every step of every parser lowers its rank: the part of the
  function it is in, then what is left of the loop, then of the loop inside it.
  Where the code counts down a number that may wrap around, the rank counts the
  bytes of the file instead (relocations, certificates); the walk of the
  resources is ranked by the entries left on its three levels, so that a tree
  that encloses itself does not prolong it; the descriptors of libraries are
  counted up to the bound of the model, in the code the file has an end. It is the part of `Terminates`
  within reach of the prover: that no call makes steps for ever. That a call
  which has not returned can make a step, the other part, is about `ENABLED` and
  stays with TLC. The one step that does not count is the one that reads a
  string of length 0 once more; it changes nothing at all.

**`ManalyzeProofs`**:

* `LibraryOutlivesInstances`, `SecondIdIsRefused`, from `RegInv`: the open
  libraries are those of the registered plugins and the one that is being
  loaded, and the local variables of `load` refer to open libraries only; a
  dynamic plugin has an id that none before it has.
* `NothingIsLostOrSplit`, from `RepInv`: files printed come before those that
  wait, those before the ones to come (`Ordered`), and each of them has all
  that was found.
* `ShortJsonIsWellFormed`, from `JsonParts`: before the first flush nothing is
  printed; after it, and before another file, the output is the brace and the
  objects of the files, and the tree is empty.
* `ManalyzeIsTyped`: from the types in `RegInv` and `RepInv`.

**`VerdictsProofs`**: `OpinionsAreShown` (`TellsAll`: a result has
information or nothing to tell, but for the exceptions) and
`OpinionsAreSummarised` (`SumsUp`: what is concluded at the end, with what each
plugin relies on before it in `Underway`).

**`FileReportProofs`** (any number of nodes, names, lists, calls of a plugin):

* `ReportIsTyped`, `ResultsAreWhole`, from `Sound`: a result that is `Kept` has
  its level, its information and at most one summary, and the results are trees
  apart from each other; pointers are null or to nodes, and results exist only
  after the dump.
* `ReportIsTree`, from `Rooted`: in the tree every node has one place, and the
  root, the list and the plugins' node under construction, and the results, have
  none; no "Version Info" is in the report before the one resource is dumped.
* `SiblingsAlwaysDiffer`, from `Distinct`, for any names that the file and the
  plugin give. A name is `Free` if none with a number of its own is given for the
  same text ("a" is not, where "a (#2)" is). Of a free name, a numbered one comes after the
  one with the number before, so that the one pass of `append` ends with a number
  that none of them has (`PassStands`). Of the others, the pass misses a child
  only if its number is higher than the pass had come to there (`PassMissesOdd`),
  and a child that is so once stays so, because lists only grow at their end
  (`Odd`, `OddKept`): that is the exception in the property (`OddCameNumbered`).
* `NothingIsEverLost`: the action property. No list loses a child (`Longer`), and
  a node that is let go of is appended in the same step; `Shallow` (the plugins'
  node is empty until it is handed over, the entries of a list are leaves) shows
  that what was below it is not deeper than the property looks.

*Assumptions.* The named `ASSUME`s of `PluginAnalysis`, `FileBounds`,
`Directories`, `Manalyze`, `Verdicts` and `FileReport`, which TLC evaluates in
the runs: sizes are natural numbers, the file is smaller than the modulus, sets
of inputs have elements of their kind. Some theorems have a hypothesis as well:

* `OpinionsAreSummarised`: `MaxCertificates <= 1`, which `AtMostOneCertificate`
  proves of the parser;
* `ReportIsTree` and `SiblingsAlwaysDiffer`: `Versions <= 1`. The run
  `file_report_versions` shows that they fail at 2.

*Induction.* The library's induction theorems take an operator as a parameter,
which the backends cannot instantiate. Where a lemma needs induction over a
sequence or a number it is applied to a set: `LeastNatural` and `Induction` say
that a non-empty set of natural numbers has a least element, from `WFMin` of
`WellFoundedInduction`.

*Only model-checked:* liveness (`AnalysisEnds` and the two `Terminates`), for
which this prover has no rules.

## 5. Findings

`PROJECT.json` quotes the lines. In short: the handle is shared by the threads
without a lock; JSON output of more than 1000 files has no comma at the flush;
a table of two certificates is never read; of the tail of the load
configuration one field is read; section names are never taken from the COFF
string table; a second version resource puts one node into the report twice,
under one name; a file whose only anomaly is a section of high entropy is not
reported by the packer plugin.

Met while modelling, and stated as exceptions in the properties:

* a version string of length 0, or of one that rounds up to 2^16, is read for
  ever (`Terminates`);
* a directory of the resource tree at offset 0 is read from wherever the cursor
  is: the list of resources is then not that of the tree, and only has nothing
  twice and nothing beyond the file (`ResourcesMatchTree`);
* a MISC structure of exactly the size of its header has no limit on its name,
  because 0 means none (`DebugInStep`);
* `append` looks for the name it wants in one pass over the siblings and counts
  up as it goes, so that it does not see a higher number that it has passed
  already: of three sections that the file calls "a (#2)", "a" and "a", the third
  is renamed to "a (#2)" as well, although the comment at
  `output_tree_node.cpp:212` says that duplicates are renamed because the JSON
  formatter cannot handle identical names (`SiblingsDiffer`: equal names only
  where the first was numbered by the file, higher than `append` had come to).
  The run `file_report` has such names, and fails without the exception;
* `pe.h:146` says that functions imported by ordinal can NOT be found with
  `find_imports`; the code finds the ordinals that `translate_ordinal` gives a
  name (`imports.cpp:367-373`), and those it does not under a made-up name. The
  comment and the code disagree, and `ShownFunctionsAreOwn` takes no side: it
  speaks of the functions imported by name, and for ordinals only of what the
  dump shows;
* of two libraries of one name the dump prints the functions of the first one
  twice (`ShownFunctionsAreOwn`); a first library without functions puts a comma
  at the start of the import hash (`HashIsSeparated`);
* a cursor that is too short empties the icon under construction, and the loop
  goes on (`IconsAreInPlace`);
* `get_authenticode_hash` leaves the file open when the certificate is in the
  headers (`DigestCoversFile`), `get_raw_data` when an allocation is refused
  (`ResourcesMatchTree`);
* a section whose end wraps covers no address; one that is out of alignment is
  read from two different places by `get_raw_data` and through `rva_to_offset`
  (`OffsetsFollowSections`).

Not the subject of a run: the JSON grammar in `escape.h` writes `\a` and `\v`, which JSON does not have.

## 6. What is not modelled

Formatting, colours, escaping and the tables of names; the layout that the
formatters give to one file; the bytes of images, strings, YARA rules, OpenSSL
and the network (external); the Windows version of the authenticode plugin; the
extraction of resources (writes files only); the parsing of the command line
and of the configuration file, which is left to Boost. What the heuristics of
the plugins look for: `Verdicts` lets them come out either way.

More than half of the lines in the repository are third-party code that is kept
in it (`json.hpp`, `lodepng`, `json_spirit`, `utf8`) and tables of constants
(`nt_values.cpp`, `ordinals.cpp`): they are no subject of this project, and the
share of all lines that is mapped is small for that reason. Of `pe.cpp`,
`imports.cpp`, `section.cpp`, `result.cpp` and `plugin_manager.cpp` most lines
are mapped, of `main.cpp` and `resources.cpp` more than half.

## 7. Plan

The modules of the first plan exist, and every safety property is proved. Proofs
could be made shorter where a lemma of `FileReportProofs` can serve several
actions; a rank as in `EveryStepCounts` could be found for `PluginAnalysis` too.

`JsonFormatter::_dump_node` and its commas could be added to `FileReport`: its
escaping cannot fail, so that the commas are right by the shape of the loop.
