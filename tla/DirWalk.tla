------------------------------ MODULE DirWalk ------------------------------
(***************************************************************************)
(* The listing of a guest directory: the bounded, gitignore-aware walk of  *)
(* internal/dirwalk over the matcher of internal/gitignore, one List or    *)
(* one entry per step, checked against what gitignore(5) leaves in.        *)
(*                                                                         *)
(* A path is the sequence of its segments, a segment a number (its place   *)
(* in byte order).  The walk root's rule file compiles with no domain in   *)
(* the code (dir ""); here its rule has own = TRUE.                        *)
(***************************************************************************)
EXTENDS Integers, Sequences, FiniteSets, SequencesExt

CONSTANTS
    DwRoot,    \* the listed directory
    DwDirs,    \* directories below it
    DwFiles,   \* files below it
    DwGits,    \* where .git directories and .git files are: [dirs, files] records
    DwIgnores,   \* what the ignore files say: [path -> lines], the exclude file under Info
    ListMaxEntries, ListMaxBytes,  \* the default bounds, which are also the largest
    DwLimits   \* requests: [entries, bytes, gitignore, skip, slow, gone] records

Star == 0    \* a segment glob that matches every name
DStar == -1  \* the ** segment
Info == <<-2>>

VARIABLES
    dwGit, dwIgnore, dwLim,
    dwRules,   \* ignoreStack.rules
    dwActive,  \* ignoreStack.active
    dwTrees,   \* ignoreStack.workTrees
    dwStack,   \* the walkDir calls: directory and entries left
    dwListed,  \* directories listed so far
    dwOut,     \* Result.Entries, as paths below the root
    dwEnd      \* "start", "walking", or how it ended

dwvars == <<dwGit, dwIgnore, dwLim, dwRules, dwActive, dwTrees, dwStack, dwListed, dwOut, dwEnd>>

\* parseListSettings: a bound not given, not positive or too large is the largest.
Clamp(n, max) == IF n > 0 /\ n < max THEN n ELSE max

\* What the request asked for, within the listing's own limits.
AskedLimits ==
    {[ask EXCEPT !.entries = Clamp(@, ListMaxEntries), !.bytes = Clamp(@, ListMaxBytes)] :
        ask \in DwLimits}

DWInit ==
    /\ dwGit \in DwGits /\ dwIgnore \in DwIgnores /\ dwLim \in AskedLimits
    /\ dwRules = <<>> /\ dwActive = FALSE /\ dwTrees = {} /\ dwStack = <<>>
    /\ dwListed = {} /\ dwOut = <<>> /\ dwEnd = "start"

-----------------------------------------------------------------------------
(***************************************************************************)
(* internal/gitignore: one pattern line against a path.                    *)
(***************************************************************************)

\* segMatch: the pattern's segments against the path's from the start.
RECURSIVE SegMatch(_, _, _, _)
SegMatch(pat, path, isDir, dirOnly) ==
    CASE pat = <<>> -> path = <<>> /\ (dirOnly => isDir)
      [] pat = <<DStar>> -> path # <<>> /\ (dirOnly => isDir)
      [] pat[1] = DStar ->
           \E skip \in 0..Len(path) :
               SegMatch(Tail(pat), SubSeq(path, skip + 1, Len(path)), isDir, dirOnly)
      [] OTHER ->
           /\ path # <<>> /\ pat[1] \in {Star, path[1]}
           /\ SegMatch(Tail(pat), Tail(path), isDir, dirOnly)

\* matchPattern below the rule's domain: an unanchored pattern at any depth.
PatternMatches(line, path, isDir) ==
    \E off \in 0..(IF line.anchored \/ Len(line.segs) > 1 THEN 0 ELSE Len(path) - 1) :
        SegMatch(line.segs, SubSeq(path, off + 1, Len(path)), isDir, line.dirOnly)

\* Mutant: the first matching line wins.
DecideFirst(lines, path, isDir) ==
    LET hits == {i \in 1..Len(lines) : PatternMatches(lines[i], path, isDir)}
    IN IF hits = {} THEN "none"
       ELSE IF lines[CHOOSE i \in hits : \A j \in hits : i <= j].neg THEN "keep" ELSE "ignore"

\* decide: the last matching line, its negation re-includes.
Decide(lines, path, isDir) ==
    LET hits == {i \in 1..Len(lines) : PatternMatches(lines[i], path, isDir)}
    IN IF hits = {} THEN "none"
       ELSE IF lines[CHOOSE i \in hits : \A j \in hits : j <= i].neg THEN "keep" ELSE "ignore"

-----------------------------------------------------------------------------
(***************************************************************************)
(* internal/dirwalk: the ignore stack.                                     *)
(***************************************************************************)

\* withinDir on the paths' text: "/" with a slash after it prefixes no other path.
WithinDir(d, p) == d = p \/ (d # <<>> /\ IsPrefix(d, p))

\* loadIgnoreLines: blank lines, comments and lines that name nothing are dropped.
LinesOf(p) ==
    IF p \in DOMAIN dwIgnore THEN SelectSeq(dwIgnore[p], LAMBDA l : l.segs # <<>>) ELSE <<>>

\* ruleDecides, with the path relative to the rule's domain.
RuleDecides(rule, abs, isDir) ==
    LET domain == IF rule.own THEN DwRoot ELSE rule.dir
    IN IF Len(abs) <= Len(domain) \/ ~IsPrefix(domain, abs) THEN "none"
       ELSE Decide(rule.lines, SubSeq(abs, Len(domain) + 1, Len(abs)), isDir)

\* Mutant: the shallowest rule that speaks decides.
IgnoredShallow(rules, abs, isDir) ==
    LET speaks == {i \in 1..Len(rules) :
                    /\ rules[i].own \/ WithinDir(rules[i].dir, abs)
                    /\ RuleDecides(rules[i], abs, isDir) # "none"}
    IN /\ speaks # {}
       /\ RuleDecides(rules[CHOOSE i \in speaks : \A j \in speaks : i <= j], abs, isDir) = "ignore"

\* ignored and absoluteIgnored: the deepest rule that speaks decides.
Ignored(rules, abs, isDir) ==
    LET speaks == {i \in 1..Len(rules) :
                    /\ rules[i].own \/ WithinDir(rules[i].dir, abs)
                    /\ RuleDecides(rules[i], abs, isDir) # "none"}
    IN /\ speaks # {}
       /\ RuleDecides(rules[CHOOSE i \in speaks : \A j \in speaks : j <= i], abs, isDir) = "ignore"

\* loadPendingRoots' probe: the nearest .git at or above the root, if a directory.
HolderOf(root) ==
    LET found == {n \in 0..Len(root) : SubSeq(root, 1, n) \in dwGit.dirs \cup dwGit.files}
        near == SubSeq(root, 1, CHOOSE n \in found : \A m \in found : m <= n)
    IN IF found = {} \/ near \notin dwGit.dirs THEN {} ELSE {near}

RuleFile(dir, lines, own) == IF lines = <<>> THEN <<>> ELSE <<[dir |-> dir, lines |-> lines, own |-> own]>>

\* The ancestors' files in activateAncestors' order: the exclude file first, then the
\* work-tree root's .gitignore, down to the root's parent.  The loop up from the
\* parent stops where the holder's text no longer prefixes the directory's.
AncestorRules(holder) ==
    LET from == {n \in 0..(Len(DwRoot) - 1) : WithinDir(holder, SubSeq(DwRoot, 1, n))
                    /\ \A m \in n..(Len(DwRoot) - 1) : WithinDir(holder, SubSeq(DwRoot, 1, m))}
        dirs == [k \in 1..Cardinality(from) |-> SubSeq(DwRoot, 1, Len(DwRoot) - Cardinality(from) + k - 1)]
    IN (IF holder = DwRoot \/ holder \in Range(dirs)
        THEN RuleFile(holder, LinesOf(Info), holder = DwRoot) ELSE <<>>)
       \o FlattenSeq([k \in 1..Len(dirs) |-> RuleFile(dirs[k], LinesOf(dirs[k]), FALSE)])

-----------------------------------------------------------------------------
(***************************************************************************)
(* internal/dirwalk: the walk.                                             *)
(***************************************************************************)

Below(p) == SubSeq(p, Len(DwRoot) + 1, Len(p))
Children(d) == {p \in DwDirs \cup DwFiles : Len(p) = Len(d) + 1 /\ IsPrefix(d, p)}

\* Walk up to the first list: the rules above the root, and an ignored ancestor.
WalkStarts ==
    /\ dwEnd = "start"
    /\ LET holder == IF dwLim.gitignore THEN HolderOf(DwRoot) ELSE {}
           rules == IF holder = {} THEN <<>> ELSE AncestorRules(CHOOSE h \in holder : TRUE)
       IN /\ dwActive' = (holder # {})
          /\ dwRules' = rules
          /\ dwEnd' = IF \E n \in 1..Len(DwRoot) :
                            Ignored(SelectSeq(rules, LAMBDA r : ~r.own), SubSeq(DwRoot, 1, n), TRUE)
                      THEN "done" ELSE "walking"
    /\ dwStack' = <<[dir |-> DwRoot, left |-> {}, listed |-> FALSE]>>
    /\ UNCHANGED <<dwGit, dwIgnore, dwLim, dwTrees, dwListed, dwOut>>

DwTop == dwStack[1]
InWorkTree(d) == dwActive \/ \E w \in dwTrees : WithinDir(w, d)

\* The directory's own .gitignore, live inside a work tree.
OwnRules(d, trees) ==
    IF dwActive \/ (d # DwRoot /\ \E w \in trees : WithinDir(w, d))
    THEN RuleFile(d, LinesOf(d), d = DwRoot) ELSE <<>>

\* walkDir's head: the deadline, the listing, the work tree, the rule file.
WalkLists ==
    /\ dwEnd = "walking" /\ dwStack # <<>> /\ ~DwTop.listed
    /\ LET d == DwTop.dir
           trees == IF dwLim.gitignore /\ d # DwRoot /\ ~InWorkTree(d) /\ d \in dwGit.dirs
                    THEN dwTrees \cup {d} ELSE dwTrees
       IN IF d \in dwLim.gone
          THEN /\ dwStack' = Tail(dwStack)
               /\ UNCHANGED <<dwRules, dwTrees, dwListed>>
          ELSE /\ dwListed' = dwListed \cup {d}
               /\ dwTrees' = trees
               /\ dwRules' = IF dwLim.gitignore THEN dwRules \o OwnRules(d, trees) ELSE dwRules
               /\ dwStack' = [dwStack EXCEPT ![1].left = Children(d), ![1].listed = TRUE]
    /\ UNCHANGED <<dwGit, dwIgnore, dwLim, dwActive, dwOut, dwEnd>>

\* The deadline passes, or the context ends, before a listing.
WalkTimesOut ==
    /\ dwEnd = "walking" /\ dwLim.slow /\ dwStack # <<>> /\ ~DwTop.listed
    /\ dwEnd' = "timeout"
    /\ UNCHANGED <<dwGit, dwIgnore, dwLim, dwRules, dwActive, dwTrees, dwStack, dwListed, dwOut>>

\* entryBytes: grows with the path.
Cost(p) == 1 + Len(Below(p))
BytesOf(out) == FoldLeft(LAMBDA a, p : a + Cost(p), 0, out)

\* The entry and the byte budget, before the entry is taken.
OverBudget(out, p) == Len(out) + 1 > dwLim.entries \/ BytesOf(out) + Cost(p) > dwLim.bytes

\* walkDir's loop, one entry: left out, past a limit, or named and walked.
WalkEntry ==
    /\ dwEnd = "walking" /\ dwStack # <<>> /\ DwTop.listed /\ DwTop.left # {}
    /\ LET p == CHOOSE c \in DwTop.left : \A o \in DwTop.left : Last(c) <= Last(o)
           rest == [dwStack EXCEPT ![1].left = @ \ {p}]
           skipped == Last(p) \in dwLim.skip
                      \/ (dwLim.gitignore /\ Ignored(dwRules, p, p \in DwDirs))
       IN CASE skipped ->
                 dwStack' = rest /\ UNCHANGED <<dwOut, dwEnd>>
            [] ~skipped /\ OverBudget(dwOut, p) ->
                 dwEnd' = "truncated" /\ UNCHANGED <<dwStack, dwOut>>
            [] OTHER ->
                 /\ dwOut' = Append(dwOut, p)
                 /\ dwStack' = IF p \in DwDirs
                               THEN <<[dir |-> p, left |-> {}, listed |-> FALSE]>> \o rest ELSE rest
                 /\ UNCHANGED dwEnd
    /\ UNCHANGED <<dwGit, dwIgnore, dwLim, dwRules, dwActive, dwTrees, dwListed>>

\* pop: the rules at the stack's end that are the directory's own.
Pop(rules, d) ==
    SelectSeq(rules, LAMBDA r : r.own \/ r.dir # d)

WalkLeaves ==
    /\ dwEnd = "walking" /\ dwStack # <<>> /\ DwTop.listed /\ DwTop.left = {}
    /\ dwStack' = Tail(dwStack)
    /\ dwRules' = IF DwTop.dir = DwRoot THEN dwRules ELSE Pop(dwRules, DwTop.dir)
    /\ UNCHANGED <<dwGit, dwIgnore, dwLim, dwActive, dwTrees, dwListed, dwOut, dwEnd>>

WalkEnds ==
    /\ dwEnd = "walking" /\ dwStack = <<>>
    /\ dwEnd' = "done"
    /\ UNCHANGED <<dwGit, dwIgnore, dwLim, dwRules, dwActive, dwTrees, dwStack, dwListed, dwOut>>

DwSettled == dwEnd \notin {"start", "walking"}

DWNext ==
    \/ WalkStarts \/ WalkLists \/ WalkTimesOut \/ WalkEntry \/ WalkLeaves \/ WalkEnds
    \/ DwSettled /\ UNCHANGED dwvars

DWSpec == DWInit /\ [][DWNext]_dwvars

-----------------------------------------------------------------------------
(***************************************************************************)
(* The reference: gitignore(5) over the whole path, with no walk.          *)
(***************************************************************************)

\* The work tree of a path: the nearest .git at or above the listed directory, else
\* the outermost repository below it.
RefHolder(q) ==
    LET above == {n \in 0..Len(DwRoot) : SubSeq(DwRoot, 1, n) \in dwGit.dirs \cup dwGit.files}
        near == SubSeq(DwRoot, 1, CHOOSE n \in above : \A m \in above : m <= n)
        nested == {n \in (Len(DwRoot) + 1)..(Len(q) - 1) : SubSeq(q, 1, n) \in dwGit.dirs}
    IN IF above # {} /\ near \in dwGit.dirs THEN {near}
       ELSE IF nested = {} THEN {}
       ELSE {SubSeq(q, 1, CHOOSE n \in nested : \A m \in nested : n <= m)}

\* git's verdict on one path: of all the lines of the exclude file, then of the
\* .gitignore of each directory from the work-tree root to the path's parent, the last
\* that matches.
RefIgnored(q) ==
    \E h \in RefHolder(q) :
        LET lines(d) == IF d \in DOMAIN dwIgnore
                        THEN [i \in 1..Len(dwIgnore[d]) |-> [at |-> d, line |-> dwIgnore[d][i]]] ELSE <<>>
            info == IF Len(h) <= Len(DwRoot) /\ Info \in DOMAIN dwIgnore
                    THEN [i \in 1..Len(dwIgnore[Info]) |-> [at |-> h, line |-> dwIgnore[Info][i]]]
                    ELSE <<>>
            all == info \o FlattenSeq([k \in 1..(Len(q) - Len(h)) |-> lines(SubSeq(q, 1, Len(h) + k - 1))])
            hits == {i \in 1..Len(all) :
                        /\ all[i].line.segs # <<>>
                        /\ PatternMatches(all[i].line, SubSeq(q, Len(all[i].at) + 1, Len(q)),
                                          q \notin DwFiles)}
        IN hits # {} /\ ~all[CHOOSE i \in hits : \A j \in hits : j <= i].line.neg

\* What the listing should name: no part of the path ignored, skipped or unreadable.
RefListed ==
    {p \in DwDirs \cup DwFiles :
        /\ \A n \in (Len(DwRoot) + 1)..Len(p) : p[n] \notin dwLim.skip
        /\ \A n \in Len(DwRoot)..(Len(p) - 1) : SubSeq(p, 1, n) \notin dwLim.gone
        /\ dwLim.gitignore =>
             \A n \in 1..Len(p) :
                (\A h \in RefHolder(p) : n > Len(h)) => ~RefIgnored(SubSeq(p, 1, n))}

\* Depth first, siblings in name order.
LexBefore(p, q) ==
    \/ IsPrefix(p, q) /\ p # q
    \/ \E i \in 1..Len(p) : i <= Len(q) /\ p[i] < q[i] /\ SubSeq(p, 1, i - 1) = SubSeq(q, 1, i - 1)

\* out names a beginning of the set's paths, each once and in order.
BeginningOf(out, paths) ==
    /\ \A i \in 1..(Len(out) - 1) : LexBefore(out[i], out[i + 1])
    /\ \A i \in 1..Len(out) : out[i] \in paths
    /\ out # <<>> => \A p \in paths : LexBefore(p, Last(out)) => p \in ToSet(out)

\* A finished listing names exactly what git would show, depth first in name order,
\* whatever work trees nest and whichever files negate each other; a truncated one
\* is a beginning of it, within both budgets, and leaves something out (Walk).
ListsWhatGitShows ==
    DwSettled =>
        LET shown == RefListed IN
        /\ BeginningOf(dwOut, shown)
        /\ dwEnd = "done" => ToSet(dwOut) = shown
        /\ dwEnd = "truncated" => Len(dwOut) < Cardinality(shown)
        /\ Len(dwOut) <= dwLim.entries /\ BytesOf(dwOut) <= dwLim.bytes

\* The walk never lists a directory the answer does not name: an ignored tree is
\* pruned before it is read (walkDir).
NeverEntersIgnored == DwSettled => dwListed \subseteq {DwRoot} \cup RefListed

\* A listing is a beginning of what git shows of the directory, and costs no look
\* into what git ignores.
ListingIsTrue ==
  /\ ListsWhatGitShows
  /\ NeverEntersIgnored
=============================================================================
