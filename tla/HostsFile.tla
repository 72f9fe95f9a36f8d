------------------------------ MODULE HostsFile ------------------------------
(***************************************************************************)
(* The hosts file, line by line: the daemon's HostsPublisher, the          *)
(* activation script that seeds the file, and whoever else edits it.       *)
(*                                                                         *)
(* Both writers read the file, build a new one and rename it into place;   *)
(* anything may happen in between.  PeerEngine takes the block as one      *)
(* register; here it is the part of a file that its other users share.     *)
(***************************************************************************)
EXTENDS Integers, SequencesExt, FiniteSets

CONSTANTS
    Hosts,      \* names that peers publish
    Others,     \* names that anybody else may add
    NoFile,     \* the file does not exist
    Decisions,  \* what the engine may decide: sets of entries
    Statics,    \* the upper region, one for each generation of the system
    MaxEdits, MaxSeeds, MaxFaults   \* bounds of the model, not of the code

ASSUME HostsAssumption ==
    /\ Hosts \cap Others = {}
    /\ \A d \in Decisions : IsFiniteSet(d) /\ d \subseteq [addr : Nat, host : Hosts]
    /\ \A s \in Statics : s \in Seq([kind : {"entry"}, addr : {0},
                                     host : STRING, at : {0}])
    /\ MaxEdits \in Nat /\ MaxSeeds \in Nat /\ MaxFaults \in Nat

VARIABLES
    file,       \* the hosts file: its lines, or NoFile
    running,    \* nixnetd has a publisher
    fallback,   \* static_prefix and static_suffix
    wanted,     \* the entries of the last decision
    draft,      \* what publish is about to rename into place, NoFile for none
    seeding,    \* where the activation script is, and what it declares
    seed,       \* what it is about to rename into place
    owed,       \* names appended when nobody was writing (for the properties)
    edits, seeds, faults   \* only to bound them

daemon == <<running, fallback, wanted, draft>>
script == <<seeding, seed, seeds>>
vars == <<file, daemon, script, owed, edits, faults>>

-----------------------------------------------------------------------------
(* Lines and the rendering of a block. *)

Mark(k) == [kind |-> k, addr |-> 0, host |-> "", at |-> 0]
Begin == Mark("begin")      \* exactly the marker
End == Mark("end")
Blank == Mark("blank")
Bytes == Mark("bytes")      \* not UTF-8
Foreign(h) == [kind |-> "entry", addr |-> 0, host |-> h, at |-> 0]
EntryLine(e) == [kind |-> "entry", addr |-> e.addr, host |-> e.host, at |-> 0]
\* The comments that carry a time: 1 is the tick that renders them, 0 any
\* earlier one.
Confirmed(e) == [kind |-> "confirmed", addr |-> e.addr, host |-> "", at |-> 1]
Written == [kind |-> "written", addr |-> 0, host |-> "", at |-> 1]
Aged(f) == [i \in 1..Len(f) |-> [f[i] EXCEPT !.at = 0]]

\* The entries of a decision in the order of their addresses.
ByAddress ==
    [d \in Decisions |-> SetToSortSeq(d, LAMBDA a, b : a.addr < b.addr)]

\* Each entry under the time of its confirmation.
RenderEntries(d) ==
    [k \in 1..(2 * Cardinality(d)) |->
        LET e == ByAddress[d][(k + 1) \div 2]
        IN  IF k % 2 = 1 THEN Confirmed(e) ELSE EntryLine(e)]

\* The block publish renders.
Render(d) == <<Begin, Written>> \o RenderEntries(d) \o <<End>>

\* The block the activation script renders: entries alone.
RenderSeed(d) ==
    <<Begin>> \o [i \in 1..Cardinality(d) |-> EntryLine(ByAddress[d][i])]
    \o <<End>>

\* The lines of files: an address and a name are those of an entry, or
\* anybody's.
Rendered == UNION {{ByAddress[d][i] : i \in 1..Cardinality(d)} : d \in Decisions}
Line == [kind : {"begin", "end", "blank", "bytes", "entry", "confirmed", "written"},
         addr : {0} \cup {e.addr : e \in Rendered},
         host : {""} \cup STRING \cup Others \cup {e.host : e \in Rendered},
         at : {0, 1}]

ASSUME NoFileAssumption ==
    NoFile \notin Seq(Line) \cup [above : Seq(Line), block : Seq(Line), below : Seq(Line)]

-----------------------------------------------------------------------------
(* Reading a file back. *)

\* The daemon searches for the marker's text, the script for its line: a line
\* that only contains the text is not modelled.
BeginAt(f) == SelectInSeq(f, LAMBDA l : l.kind = "begin")

BlockEnd(f, b) == SelectInSubSeq(f, b, Len(f), LAMBDA l : l.kind = "end")

\* trim_end_matches of newlines
TrimBlanks(f) ==
    SubSeq(f, 1, SelectLastInSeq(f, LAMBDA l : l.kind # "blank"))

FaultySplitStatic(f) ==
    LET b == BeginAt(f)
    IN  [prefix |-> TrimBlanks(IF b = 0 THEN f ELSE SubSeq(f, 1, b - 1)),
         suffix |-> <<>>]

SplitStatic(f) ==
    LET b == BeginAt(f)
        e == BlockEnd(f, b)
    IN  IF b = 0
        THEN [prefix |-> TrimBlanks(f), suffix |-> <<>>]
        ELSE [prefix |-> TrimBlanks(SubSeq(f, 1, b - 1)),
              suffix |-> IF e = 0 THEN <<>> ELSE SubSeq(f, e + 1, Len(f))]

FaultySameButForFreshness(f, g) == f = g
\* Equal but for the comments that change at every tick.
SameButForFreshness(f, g) ==
    LET Significant(l) == l.kind \notin {"confirmed", "written"}
    IN  SelectSeq(f, Significant) = SelectSeq(g, Significant)

\* parse_nix_hosts: whether a line is in a block is decided by the last
\* marker above it, and an entry's time by the comment just above it.
ParseNixHosts(f) ==
    LET InBlock(i) ==
            \E b \in 1..(i - 1) :
                f[b] = Begin /\ \A j \in (b + 1)..(i - 1) : f[j] # End
        At(i) == IF /\ f[i - 1].kind = "confirmed"
                    /\ f[i - 1].addr = f[i].addr
                 THEN f[i - 1].at ELSE 0
        taken == SetToSortSeq({i \in 2..Len(f) :
                                f[i].kind = "entry" /\ InBlock(i)},
                              LAMBDA i, j : i < j)
    IN  [n \in 1..Len(taken) |->
            [addr |-> f[taken[n]].addr, host |-> f[taken[n]].host,
             at |-> At(taken[n])]]

\* read_to_string
Content(f) == IF f = NoFile THEN <<>> ELSE f
Readable(f) == Bytes \notin ToSet(Content(f))

\* The script's awk: a BEGIN, and an END below it.
HasBlock(f) ==
    /\ f # NoFile /\ BeginAt(f) # 0
    /\ BlockEnd(f, BeginAt(f)) # 0

-----------------------------------------------------------------------------
Idle == [at |-> "no", static |-> <<>>]

Init ==
    /\ file \in {NoFile} \cup Statics
    /\ running = FALSE
    /\ fallback = [prefix |-> <<>>, suffix |-> <<>>]
    /\ wanted \in Decisions
    /\ draft = NoFile
    /\ seeding = Idle
    /\ seed = NoFile
    /\ owed = {}
    /\ edits = 0 /\ seeds = 0 /\ faults = 0

NobodyWrites == draft = NoFile /\ seeding = Idle

(* The daemon. *)

\* HostsPublisher::new; with a file it cannot read the daemon does not start.
Start ==
    /\ ~running /\ Readable(file)
    /\ running' = TRUE
    /\ fallback' = IF file = NoFile THEN [prefix |-> <<>>, suffix |-> <<>>]
                                    ELSE SplitStatic(file)
    /\ UNCHANGED <<file, wanted, draft, script, owed, edits, faults>>

\* The static content of the start, whatever the file says now.
FaultyRewritten(d) == fallback.prefix \o Render(d) \o fallback.suffix
Rewritten(d) ==
    LET rest == IF file = NoFile THEN fallback ELSE SplitStatic(file)
    IN  rest.prefix \o Render(d) \o rest.suffix

\* publish up to the rename: read, render, compare.  d are the entries as the
\* engine has just decided them.
PublishRead(d) ==
    /\ running /\ draft = NoFile
    /\ Readable(file)
    /\ wanted' = d
    /\ draft' = IF file # NoFile /\ SameButForFreshness(file, Rewritten(d))
                THEN NoFile ELSE Rewritten(d)
    /\ UNCHANGED <<file, running, fallback, script, owed, edits, faults>>

\* The rename of write_with_chmod; time goes on.
PublishRename ==
    /\ draft # NoFile
    /\ file' = Aged(draft) /\ draft' = NoFile
    /\ UNCHANGED <<running, fallback, wanted, script, owed, edits, faults>>

\* It fails before the rename, or the directory's sync fails after it.
PublishFails ==
    /\ draft # NoFile /\ faults < MaxFaults
    /\ file' \in {file, Aged(draft)} /\ draft' = NoFile
    /\ faults' = faults + 1
    /\ UNCHANGED <<running, fallback, wanted, script, owed, edits>>

Crash ==
    /\ running /\ faults < MaxFaults
    /\ running' = FALSE /\ draft' = NoFile
    /\ fallback' = [prefix |-> <<>>, suffix |-> <<>>]
    /\ faults' = faults + 1
    /\ UNCHANGED <<file, wanted, script, owed, edits>>

(* The activation script. *)

\* The first awk.
SeedCheck(s) ==
    /\ seeding = Idle /\ seeds < MaxSeeds
    /\ seeding' = [at |-> IF HasBlock(file) THEN "copy" ELSE "make",
                   static |-> s]
    /\ seeds' = seeds + 1
    /\ UNCHANGED <<file, daemon, seed, owed, edits, faults>>

FromBlock(f) ==
    IF BeginAt(f) = 0 THEN <<>> ELSE SubSeq(f, BeginAt(f), Len(f))

\* The second awk, which reads the file again; without one, set -e ends the
\* script.  Of what is above the block only the declared part is written.
SeedCopy ==
    /\ seeding.at = "copy"
    /\ IF file = NoFile
       THEN seeding' = Idle /\ seed' = NoFile
       ELSE /\ seed' = seeding.static \o FromBlock(file)
            /\ seeding' = [seeding EXCEPT !.at = "install"]
    /\ UNCHANGED <<file, daemon, seeds, owed, edits, faults>>

\* d is what state.json has; nothing when jq fails on it.
SeedMake(d) ==
    /\ seeding.at = "make"
    /\ seed' = seeding.static \o RenderSeed(d)
    /\ seeding' = [seeding EXCEPT !.at = "install"]
    /\ UNCHANGED <<file, daemon, seeds, owed, edits, faults>>

\* cmp, and mv unless the two are the same.
SeedInstall ==
    /\ seeding.at = "install"
    /\ file' = seed
    /\ seeding' = Idle /\ seed' = NoFile
    /\ UNCHANGED <<daemon, seeds, owed, edits, faults>>

SeedKilled ==
    /\ seeding # Idle /\ faults < MaxFaults
    /\ seeding' = Idle /\ seed' = NoFile
    /\ faults' = faults + 1
    /\ UNCHANGED <<file, daemon, seeds, owed, edits>>

(* Everybody else. *)

Edit(f) ==
    /\ edits < MaxEdits
    /\ file' = f
    /\ edits' = edits + 1
    /\ UNCHANGED <<daemon, script, faults>>

\* echo ... >> /etc/hosts
AppendName(h) ==
    /\ file # NoFile /\ Foreign(h) \notin ToSet(file)
    /\ Edit(Append(file, Foreign(h)))
    /\ owed' = IF NobodyWrites /\ HasBlock(file) THEN owed \cup {h} ELSE owed

\* A line just above the block: a name, an END that ends nothing, an empty
\* line, a byte that is not UTF-8.
Strays == {Foreign(h) : h \in Others} \cup {End, Blank, Bytes}
InsertAbove(l) ==
    /\ file # NoFile /\ l \notin ToSet(SubSeq(file, 1, BeginAt(file)))
    /\ Edit(InsertAt(file, IF BeginAt(file) = 0 THEN 1 ELSE BeginAt(file), l))
    /\ UNCHANGED owed

\* The block's END is deleted; or the whole file is.
Unterminate ==
    /\ HasBlock(file)
    /\ Edit(RemoveAt(file, BlockEnd(file, BeginAt(file))))
    /\ owed' = {}

Delete ==
    /\ file # NoFile
    /\ Edit(NoFile)
    /\ owed' = {}

Repair ==
    /\ file # NoFile
    /\ \E i \in 1..Len(file) : file[i] = Bytes /\ file' = RemoveAt(file, i)
    /\ UNCHANGED <<daemon, script, owed, edits, faults>>

Next ==
    \/ Start \/ PublishRename \/ PublishFails \/ Crash
    \/ \E d \in Decisions : PublishRead(d) \/ SeedMake(d)
    \/ \E s \in Statics : SeedCheck(s)
    \/ SeedCopy \/ SeedInstall \/ SeedKilled
    \/ \E h \in Others : AppendName(h)
    \/ \E l \in Strays : InsertAbove(l)
    \/ Unterminate \/ Delete \/ Repair

\* systemd restarts the daemon, its workers tick for ever, also when they
\* decide the same again, a started script ends, and somebody repairs a file
\* that nothing can read.
Fairness ==
    /\ WF_vars(Start) /\ WF_vars(PublishRead(wanted))
    /\ WF_vars(PublishRename)
    /\ WF_vars(SeedCopy) /\ WF_vars(\E d \in Decisions : SeedMake(d))
    /\ WF_vars(SeedInstall) /\ WF_vars(Repair)

Spec == Init /\ [][Next]_vars
FairSpec == Spec /\ Fairness

-----------------------------------------------------------------------------
(* Properties. *)

(* The file as its users see it, said without the code's own functions:    *)
(* where the block begins and ends, and where what is above it ends.       *)
Begins(f, i) ==
    /\ i = Len(f) + 1 \/ f[i].kind = "begin"
    /\ \A j \in 1..(i - 1) : f[j].kind # "begin"
Ends(f, first, i) ==
    /\ i = Len(f) \/ (i >= first /\ f[i].kind = "end")
    /\ \A j \in first..(i - 1) : f[j].kind # "end"
Tops(f, first, i) ==
    /\ \A j \in (i + 1)..(first - 1) : f[j].kind = "blank"
    /\ i = 0 \/ f[i].kind # "blank"

Regions(f) ==
    LET first == CHOOSE i \in 1..(Len(f) + 1) : Begins(f, i)
        last == CHOOSE i \in (first - 1)..Len(f) : Ends(f, first, i)
        top == CHOOSE i \in 0..(first - 1) : Tops(f, first, i)
    IN  [above |-> SubSeq(f, 1, top),
         block |-> SubSeq(f, first, last),
         below |-> SubSeq(f, last + 1, Len(f))]
\* Every name that was appended under the block at a moment when neither
\* writer was between its read and its rename is still there, unless somebody
\* deleted the file or the block's END: publishing, seeding, restarts and
\* failures of both never drop it (hosts.rs: PUB-1).
AppendsSurvive == file # NoFile => \A h \in owed : Foreign(h) \in ToSet(file)

\* PUB-1: "any entry written outside nixnet's markers survives"; of what stands
\* above the block the script keeps nothing that the new generation does not
\* declare (core.nix: 617-624), so that this does not hold.
ActivationKeepsNames ==
    [][SeedCopy /\ file # NoFile =>
         \A h \in Others :
             Foreign(h) \in ToSet(file) => Foreign(h) \in ToSet(seed')]_vars

\* What the two writers do to the file is what ManagedFile promises, at
\* whatever moment the other or an editor got in between: the daemon puts both
\* regions back as it has read them, the script the block and what is below it
\* under the upper region it declares, whatever was above the block before.
DaemonBlocks == {Aged(Render(d)) : d \in Decisions}
ScriptBlocks == {RenderSeed(d) : d \in Decisions}
RegionsOf(f) == IF f = NoFile THEN NoFile ELSE Regions(f)
Later(f) == IF f = NoFile THEN NoFile ELSE Aged(f)
Managed == INSTANCE ManagedFile WITH
    Blocks <- DaemonBlocks,
    Seeds <- ScriptBlocks,
    Nothing <- NoFile,
    file <- Regions(Content(file)),
    kept <- [above |-> fallback.prefix, block |-> <<>>,
             below |-> fallback.suffix],
    held <- RegionsOf(Later(draft)),
    carried <- RegionsOf(seed)
RefinesManagedFile == Managed!Spec

\* Once the engine has decided for good, the block comes to say so and goes on
\* saying so, whatever was done to the file before; read back, it gives the
\* entries in the order of their addresses.  From then on nothing is written,
\* although every tick publishes and the time of the last confirmation is
\* another one at each (TF-2).
Says(f, d) ==
    /\ f # NoFile /\ BeginAt(f) # 0
    /\ LET read == ParseNixHosts(SubSeq(f, BeginAt(f), Len(f) - Len(Regions(f).below)))
       IN  [i \in 1..Len(read) |-> [addr |-> read[i].addr,
                                    host |-> read[i].host]] = ByAddress[d]
Converges ==
    <>[][wanted' = wanted]_wanted =>
        <>[](Says(file, wanted) /\ draft = NoFile)
=============================================================================
