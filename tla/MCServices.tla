---------------------------- MODULE MCServices ----------------------------
(***************************************************************************)
(* Small instances of what serves a program's calls: the FAT driver        *)
(* (paths, directories, files and names), file streams and the call that   *)
(* writes, the heap and the division of the user library, and the          *)
(* formatting of the kernel's messages.  They share no variable: in each   *)
(* behaviour one of them works, named by job, and the others rest in an    *)
(* initial state.                                                          *)
(***************************************************************************)
EXTENDS Paths, Directory, FatFile, ShortNames, Streams,
        Write, UserHeap, Division, Format, TLC

VARIABLE job

filesVars    == <<pathsVars, directoryVars, fileVars, namesVars, streamsVars>>
programsVars == <<writeVars, heapVars, divisionVars, formatVars>>
servicesVars == <<job, filesVars, programsVars>>

\* "ab" stands for the names of two letters, "b" for those of one.
MCLengths == (""    :> 0) @@ ("."    :> 1) @@ ("b"  :> 1) @@ (".." :> 2) @@ ("ab" :> 2) @@
             ("usr" :> 3) @@ ("init" :> 4)
MCNames   == DOMAIN MCLengths

-----------------------------------------------------------------------------
(* Volumes with a root and two subdirectories. *)

File(name)   == [mark |-> "used", name |-> name, dir |-> FALSE, first |-> 9]
Dir(name, c) == [mark |-> "used", name |-> name, dir |-> TRUE, first |-> c]
Deleted      == [mark |-> "deleted", name |-> "a", dir |-> TRUE, first |-> 2]
Label        == [mark |-> "label", name |-> "a", dir |-> FALSE, first |-> 0]

\* No two entries in use share a name.
Distinct(s) == \A k, l \in DOMAIN s :
  k # l /\ s[k].mark = "used" /\ s[l].mark = "used" => s[k].name # s[l].name

Scans(count, E) == {s \in [1 .. count -> E] : Distinct(s)}

\* Where cluster 0 would be there are other entries: the end of the root's.
BeforeData == <<File("a"), NoEntry>>

\* A subdirectory begins with the entries of itself and of its parent.
Sub(s) == <<Dir(".", 1), Dir("..", 0)>> \o s

MCVolumes ==
  {(Root :> r) @@ (0 :> BeforeData) @@ (1 :> Sub(s)) @@ (2 :> Sub(t)) :
     r \in Scans(3, {NoEntry, Deleted, Label, File("b"), Dir("a", 1)}),
     s \in Scans(2, {NoEntry, Deleted, File("a"), Dir("b", 2)}),
     t \in Scans(2, {NoEntry, File("a"), Dir("b", 1)})}
NoVolume == (Root :> [k \in 1 .. 3 |-> NoEntry]) @@ (0 :> BeforeData)
            @@ (1 :> Sub(<<NoEntry, NoEntry>>)) @@ (2 :> Sub(<<NoEntry, NoEntry>>))
MCPaths == {<<>>, <<"a">>, <<"b">>, <<"a", "b">>, <<"b", "a">>, <<"a", "b", "a">>}

\* Files of up to three clusters, contiguous or scattered.
MCChains == {s \in UNION {[1 .. c -> {2, 3, 5}] : c \in 1 .. 3} :
               \A j, k \in DOMAIN s : s[j] = s[k] => j = k}
UpToNine == 0 .. 9

MCLetters == {"a", "b"}

\* Of three bits.
MCSeeks == {-4, -1, 0, 3}

-----------------------------------------------------------------------------
(* Calls of programs and of the kernel. *)

\* Pages of 12 bytes, headers of 2; requests that share a page, fill one or need two.
MCRequests == {0, 1, 5, 8, 20}
MCFrames   == 0 .. 3

\* Four pages of two bytes on three frames; what is not mapped leads to frame 0.
MCMemory == 0 .. 2
MCMaps   == {[p \in 0 .. 3 |-> m[p + 1]] :
               m \in {<<0, 1, 2, 0>>, <<2, 1, 0, 0>>, <<1, 0, 2, 1>>, <<0, 0, 1, 2>>}}
MCZeros  == {z \cup {6} : z \in SUBSET (0 .. 5)}

\* Formats of up to three directives; numbers of one to three digits, the least of
\* them included.
Textual(kind, characters) == [kind |-> kind, text |-> characters, number |-> 0]
Numeric(kind, numbers) == {[kind |-> kind, text |-> << >>, number |-> k] : k \in numbers}

MCDirectives ==
  {Textual("letter", <<97>>), Textual("c", <<98>>), Textual("unknown", << >>),
   Textual("s", << >>), Textual("s", <<97, 98, 97>>)}
  \cup Numeric("d", {-128, -105, 0, 7, 120}) \cup Numeric("x", {0, 160, 255})
MCFormats == UNION {[1 .. k -> MCDirectives] : k \in 0 .. 3}

-----------------------------------------------------------------------------
Jobs == {"paths", "directory", "file", "names", "streams",
         "write", "heap", "division", "format"}

\* One initial state for what rests.
Resting ==
  /\ job = "paths" \/ (job # "paths" /\ path = <<"">>)
  /\ \/ job = "directory"
     \/ job # "directory" /\ volume = NoVolume /\ sought = << >> /\ op = "find"
  /\ job = "file" \/ (job # "file" /\ chain = <<2>> /\ spc = 1 /\ offset = 0 /\ length = 0)
  /\ job = "names" \/ (job # "names" /\ entry = [k \in 1 .. Base + Ext |-> <<"a", "big">>])
  /\ \/ job = "write"
     \/ /\ job # "write"
        /\ map = [p \in 0 .. 3 |-> p % 3] /\ zeros = {6} /\ open = FALSE /\ ecx = 0 /\ edx = 0
  /\ job = "heap" \/ (job # "heap" /\ mended = FALSE)
  /\ job = "division" \/ (job # "division" /\ routine = "div" /\ n = 0 /\ d = 1)
  /\ job = "format" \/ (job # "format" /\ fmt = << >> /\ buflen = 1)

MCInit ==
  /\ job \in Jobs /\ Resting
  /\ DirectoryInit /\ PathsInit /\ FatFileInit /\ ShortNamesInit /\ StreamsInit
  /\ WriteInit /\ UserHeapInit /\ DivisionInit /\ FormatInit

Works(part) == job = part /\ UNCHANGED job

ParsesPath ==
  /\ Works("paths") /\ PathsNext
  /\ UNCHANGED <<directoryVars, fileVars, namesVars, streamsVars, programsVars>>
LooksUp ==
  /\ Works("directory") /\ DirectoryNext
  /\ UNCHANGED <<pathsVars, fileVars, namesVars, streamsVars, programsVars>>
ReadsChain ==
  /\ Works("file") /\ FatFileNext
  /\ UNCHANGED <<pathsVars, directoryVars, namesVars, streamsVars, programsVars>>
ConvertsName ==
  /\ Works("names") /\ ShortNamesNext
  /\ UNCHANGED <<pathsVars, directoryVars, fileVars, streamsVars, programsVars>>
SeeksOnStreams ==
  /\ Works("streams") /\ StreamsNext
  /\ UNCHANGED <<pathsVars, directoryVars, fileVars, namesVars, programsVars>>
Writes ==
  /\ Works("write") /\ WriteNext
  /\ UNCHANGED <<filesVars, heapVars, divisionVars, formatVars>>
Allocates ==
  /\ Works("heap") /\ UserHeapNext
  /\ UNCHANGED <<filesVars, writeVars, divisionVars, formatVars>>
Divides ==
  /\ Works("division") /\ DivisionNext
  /\ UNCHANGED <<filesVars, writeVars, heapVars, formatVars>>
FormatsMessage ==
  /\ Works("format") /\ FormatNext
  /\ UNCHANGED <<filesVars, writeVars, heapVars, divisionVars>>

\* A call of any of them but of Paths, which says so itself, may be over.
Over == job # "paths" /\ UNCHANGED servicesVars

MCNext ==
  \/ ParsesPath \/ LooksUp \/ ReadsChain \/ ConvertsName \/ SeeksOnStreams
  \/ Writes \/ Allocates \/ Divides \/ FormatsMessage \/ Over

MCSpec == MCInit /\ [][MCNext]_servicesVars

=============================================================================
