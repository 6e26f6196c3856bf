------------------------------ MODULE Toolchain ------------------------------
(***************************************************************************)
(* make, from a .S file to a .hex0 file: the assembler of its machine, the *)
(* linker, and hex2tohex0.py, each run when its target is not newer than   *)
(* what it is made from.  A target counts as made as soon as its file has  *)
(* been opened, and nothing deletes it when its recipe fails: the next     *)
(* make goes on from what is there.                                        *)
(***************************************************************************)
EXTENDS A64Assembler, Rv64Assembler, Hex2, Hex2ToHex0

CONSTANTS
    Sources,          \* [isa, lines]: what the .S file may be
    Drafts            \* those of them that are edited into one another

Machines == {"aarch64", "riscv64"}

ASSUME SourcesAssumption ==
    /\ Drafts \subseteq Sources
    /\ \A s \in Sources : s.isa \in Machines /\ s.lines \in Seq(Range(s.lines))

VARIABLES
    isa,
    fresh,            \* the targets that are newer than their prerequisites
    made,             \* "none", "running", "ok" or "failed": how make has ended
    spoilt            \* HISTORY: whether a recipe failed since the .S file was written

making == <<isa, fresh, made, spoilt>>
tools  == <<assembly, hex2, bin, hex0, reading, asm64, linking, making>>

\* One of these sources is there, and nothing has been made.
Written(sources) ==
    /\ \E s \in sources : isa = s.isa /\ assembly = s.lines
    /\ hex2 = <<>> /\ bin = <<>> /\ hex0 = <<>>
    /\ job = "idle" /\ at = 0 /\ addr = 0
    /\ labels = <<>> /\ parsed = <<>> /\ starts = <<>> /\ listing = <<>>
    /\ targets = <<>> /\ shift = {}
    /\ fresh = {} /\ made = "none" /\ spoilt = FALSE

ToolsInit == Written(Sources)

-----------------------------------------------------------------------------
\* Mutant: the .hex2 file does not depend on the .S file.
AllButHex2 == fresh \cap {"hex2"}

\* What of the targets is newer than a new source, and than what is made of it.
Outdated == {}

\* Someone writes another source, for the same machine.
Edit ==
    /\ made # "running"
    /\ \E s, d \in Drafts :
        /\ d.isa = isa /\ d.lines = assembly
        /\ s.isa = isa /\ s # d
        /\ assembly' = s.lines
    /\ fresh' = Outdated /\ made' = "none" /\ spoilt' = FALSE
    /\ UNCHANGED <<hex2, bin, hex0, reading, asm64, linking, isa>>

\* Someone runs make.
Make ==
    /\ made # "running"
    /\ made' = "running"
    /\ UNCHANGED <<assembly, hex2, bin, hex0, reading, asm64, linking, isa, fresh, spoilt>>

\* make runs a recipe for the first target that is not fresh.
Runs(target, needed) == made = "running" /\ job = "idle" /\ target \notin fresh /\ needed \subseteq fresh

RunAssembler ==
    /\ Runs("hex2", {})
    /\ \/ isa = "aarch64" /\ A64Begins
       \/ isa = "riscv64" /\ Rv64Begins /\ UNCHANGED asm64
    /\ UNCHANGED <<assembly, bin, hex0, linking, making>>

RunLinker ==
    /\ Runs("bin", {"hex2"})
    /\ LinkBegins
    /\ UNCHANGED <<assembly, hex2, hex0, asm64, making>>

RunHex2ToHex0 ==
    /\ Runs("hex0", {"hex2", "bin"})
    /\ AnnotateBegins
    /\ UNCHANGED <<assembly, hex2, bin, asm64, linking, making>>

\* The tool that was started goes on.
Assembles == (Assemble /\ UNCHANGED <<bin, hex0, linking>>) \/ (Print64 /\ UNCHANGED <<bin, hex0, asm64, linking>>)
Links     == Link /\ UNCHANGED <<hex2, hex0, asm64>>
Annotates == Annotate /\ UNCHANGED <<hex2, bin, asm64, linking>>

Work == (Assembles \/ Links \/ Annotates) /\ UNCHANGED <<assembly, making>>

\* The target of the tool that ran last: the first that is not fresh.
Target0 == IF "hex2" \notin fresh THEN "hex2" ELSE IF "bin" \notin fresh THEN "bin" ELSE "hex0"

Renewed == fresh \cup {Target0}

RecipeEnds ==
    /\ job \in {"printed", "linked", "annotated", "refused"}
    /\ fresh' = Renewed
    /\ made' = (IF job = "refused" THEN "failed" ELSE "running")
    /\ spoilt' = (spoilt \/ job = "refused")
    /\ job' = "idle"
    /\ UNCHANGED <<assembly, hex2, bin, hex0, at, addr, asm64, linking, isa>>

\* Nothing is left to be done.
MakeEnds ==
    /\ made = "running" /\ job = "idle" /\ fresh = {"hex2", "bin", "hex0"}
    /\ made' = "ok"
    /\ UNCHANGED <<assembly, hex2, bin, hex0, reading, asm64, linking, isa, fresh, spoilt>>

MakeGoesOn == RunAssembler \/ RunLinker \/ RunHex2ToHex0 \/ Work \/ RecipeEnds \/ MakeEnds

ToolsNext == Edit \/ Make \/ MakeGoesOn

ToolsSpec == ToolsInit /\ [][ToolsNext]_tools
=============================================================================
