-------------------------- MODULE EntityResolution --------------------------
(***************************************************************************)
(* The discovery stage of a research run: the records the sources returned *)
(* are compared two by two, a union-find with path halving groups those a  *)
(* decision merges, and every group is persisted as one research work.     *)
(*   services/literature_research/entity_resolution.py   the resolution    *)
(*   services/literature_research/discovery.py           the stage         *)
(*   repositories/literature_research/discovery.py       the works         *)
(* A run paused while it discovers keeps what it persisted and discovers   *)
(* again when it is resumed; a source may fail in one execution only.      *)
(* Titles are classes, with the Jaccard score of two classes in percent; a *)
(* date is a year; a cluster key is the text that is hashed.               *)
(***************************************************************************)
EXTENDS Integers, FiniteSets

CONSTANTS
  Size,         \* number of records the sources hold together
  Kinds,        \* the metadata a record may have
  TitleScore,   \* TitleScore[t, u]: similarity of two title classes, in percent
  NONE,         \* no DOI, no arXiv identifier
  NoYear,       \* no effective publication date
  Today,        \* year of retrieval, the date of an undated record
  MaxRounds     \* bound on the executions of the stage

Records == 1 .. Size

ASSUME SizeAssumption == Size \in Nat \ {0}
ASSUME RoundsAssumption == MaxRounds \in Nat \ {0}
ASSUME NoneAssumption == NONE \notin Records

\* The key of a cluster is a DOI, an arXiv identifier or a normalised title, untagged.
\* A DOI has a slash, which a title keeps no more than any other punctuation and an
\* arXiv identifier, the last segment of a path, cannot have; and no title is a number.
ASSUME NameSpacesAssumption ==
  \A k, l \in Kinds :
    /\ k.doi # NONE => k.doi \notin {l.arxiv, l.title}
    /\ k.arxiv # NONE => k.arxiv # l.title

ASSUME YearsAssumption ==
  Today \in Int /\ \A k \in Kinds : k.year = NoYear \/ k.year \in Int

\* A record's source, of the two that are queried.
Source(r) == IF r % 2 = 0 THEN "crossref" ELSE "arxiv"

VARIABLES
  paper,     \* the normalised metadata of every record
  found,     \* the records this execution resolves, in the order of their numbers
  parent,    \* the union-find
  todo,      \* pairs not yet compared
  decisions, \* decisions kept so far, the pairs kept separate excepted
  step,      \* what the resolution does next
  item,      \* where find stands
  root,      \* the root find returned for the left paper
  group,     \* the root of every paper grouped so far
  works,     \* persisted works of the run
  rounds     \* executions started
vars == <<paper, found, parent, todo, decisions, step, item, root, group, works, rounds>>

-----------------------------------------------------------------------------
(* The decision about two papers *)

\* Jaccard similarity of two sets of author names, in percent.
Jaccard(a, b) ==
  IF a \cup b = {} THEN 100 ELSE (100 * Cardinality(a \cap b)) \div Cardinality(a \cup b)

\* Mutation: two papers with one arXiv identifier are not recognised.
ArxivIgnored(p, q) == p.doi # NONE /\ p.doi = q.doi

SameIdentifier(p, q) ==
  \/ p.doi # NONE /\ p.doi = q.doi
  \/ p.arxiv # NONE /\ p.arxiv = q.arxiv

YearCompatible(p, q) ==
  NoYear \notin {p.year, q.year} /\ p.year - q.year \in -1 .. 1

SameTitleAuthor(p, q) ==
  p.title = q.title /\ p.authors \cap q.authors # {} /\ YearCompatible(p, q)

Alike(p, q, title, authors) ==
  TitleScore[p.title, q.title] >= title /\ Jaccard(p.authors, q.authors) >= authors

duplicate_decision(p, q) ==
  IF SameIdentifier(p, q) \/ SameTitleAuthor(p, q) \/ Alike(p, q, 92, 70) THEN "MERGE"
  ELSE IF Alike(p, q, 85, 50) THEN "REVIEW" ELSE "KEEP_SEPARATE"

Decision(l, r) == duplicate_decision(paper[l], paper[r])

-----------------------------------------------------------------------------
(* The stage starts, and is executed again after a pause *)

Pairs(set) == {pair \in set \X set : pair[1] < pair[2]}

\* What an execution finds: the records of the sources that answered.
Answers == {{r \in Records : Source(r) \in up} : up \in SUBSET {"arxiv", "crossref"}}

Init ==
  /\ paper \in [Records -> Kinds]
  /\ found \in Answers
  /\ parent = [r \in found |-> r]
  /\ todo = Pairs(found)
  /\ decisions = {}
  /\ step = "compare" /\ item = NONE /\ root = NONE
  /\ group = [r \in {} |-> r]
  /\ works = {} /\ rounds = 1

Replay ==
  /\ step = "done" /\ rounds < MaxRounds
  /\ found' \in Answers
  /\ parent' = [r \in found' |-> r]
  /\ todo' = Pairs(found')
  /\ decisions' = {}
  /\ step' = "compare"
  /\ group' = [r \in {} |-> r]
  /\ rounds' = rounds + 1
  /\ UNCHANGED <<paper, item, root, works>>

-----------------------------------------------------------------------------
(* The comparisons *)

\* The pair the two nested loops have reached.
Reached(pair) ==
  /\ pair \in todo
  /\ \A other \in todo : \/ pair[1] < other[1]
                         \/ pair[1] = other[1] /\ pair[2] <= other[2]

\* Mutation: a decision to keep two papers apart is kept too.
EveryDecision(pair, decision) == {<<pair, decision>>}

Noted(pair, decision) == IF decision = "KEEP_SEPARATE" THEN {} ELSE {<<pair, decision>>}

Compare(pair) ==
  /\ step = "compare" /\ Reached(pair)
  /\ LET decision == Decision(pair[1], pair[2]) IN
     /\ decisions' = decisions \cup Noted(pair, decision)
     /\ IF decision = "MERGE"
        THEN step' = "left" /\ item' = pair[1] /\ UNCHANGED todo
        ELSE todo' = todo \ {pair} /\ UNCHANGED <<step, item>>
  /\ UNCHANGED <<paper, found, parent, root, group, works, rounds>>

\* Mutation: find compresses the path and does not walk along it.
HalveInPlace ==
  /\ step \in {"left", "right", "group"}
  /\ item # NONE /\ parent[item] # item
  /\ parent' = [parent EXCEPT ![item] = parent[parent[item]]]
  /\ UNCHANGED <<paper, found, todo, decisions, step, item, root, group, works, rounds>>

\* One turn of the loop of find: the item is attached to its grandparent.
Halve ==
  /\ step \in {"left", "right", "group"}
  /\ item # NONE /\ parent[item] # item
  /\ parent' = [parent EXCEPT ![item] = parent[parent[item]]]
  /\ item' = parent'[item]
  /\ UNCHANGED <<paper, found, todo, decisions, step, root, group, works, rounds>>

LeftFound(pair) ==
  /\ step = "left" /\ Reached(pair) /\ parent[item] = item
  /\ root' = item
  /\ item' = pair[2] /\ step' = "right"
  /\ UNCHANGED <<paper, found, parent, todo, decisions, group, works, rounds>>

\* Mutation: the right paper alone is attached, not the tree it is in.
RightAttached(pair) ==
  /\ step = "right" /\ Reached(pair) /\ parent[item] = item
  /\ parent' = [parent EXCEPT ![pair[2]] = root]
  /\ todo' = todo \ {pair}
  /\ step' = "compare" /\ item' = NONE /\ root' = NONE
  /\ UNCHANGED <<paper, found, decisions, group, works, rounds>>

Union(pair) ==
  /\ step = "right" /\ Reached(pair) /\ parent[item] = item
  /\ parent' = [parent EXCEPT ![item] = root]
  /\ todo' = todo \ {pair}
  /\ step' = "compare" /\ item' = NONE /\ root' = NONE
  /\ UNCHANGED <<paper, found, decisions, group, works, rounds>>

-----------------------------------------------------------------------------
(* The groups and the works *)

\* The papers are grouped in their order, each under the root find returns.
Group ==
  /\ \/ step = "compare" /\ todo = {} /\ step' = "group"
     \/ step = "group" /\ UNCHANGED step
  /\ item = NONE
  /\ \E r \in found \ DOMAIN group :
       /\ \A other \in found \ DOMAIN group : r <= other
       /\ item' = r /\ root' = r
  /\ UNCHANGED <<paper, found, parent, todo, decisions, group, works, rounds>>

Grouped ==
  /\ step = "group" /\ item # NONE /\ parent[item] = item
  /\ group' = [r \in DOMAIN group \cup {root} |-> IF r = root THEN item ELSE group[r]]
  /\ item' = NONE /\ root' = NONE
  /\ UNCHANGED <<paper, found, parent, todo, decisions, step, works, rounds>>

VersionPriority(p) ==
  CASE p.version = "VERSION_OF_RECORD" -> 4
    [] p.version = "CONFERENCE_VERSION" -> 3
    [] p.version = "ACCEPTED_MANUSCRIPT" -> 2
    [] p.version = "PREPRINT" -> 1
    [] OTHER -> 0

DateOf(p) == IF p.year = NoYear THEN Today ELSE p.year

\* By priority, then by date; of two papers equal in both, the first.
Above(r, s) ==
  LET p == paper[r]
      q == paper[s]
  IN  \/ VersionPriority(p) > VersionPriority(q)
      \/ /\ VersionPriority(p) = VersionPriority(q)
         /\ \/ DateOf(p) > DateOf(q)
            \/ DateOf(p) = DateOf(q) /\ r <= s

Preferred(cluster) == CHOOSE r \in cluster : \A s \in cluster : Above(r, s)

cluster_key(cluster) ==
  LET p == paper[Preferred(cluster)] IN
  IF p.doi # NONE THEN p.doi ELSE IF p.arxiv # NONE THEN p.arxiv ELSE p.title

Clusters == {{r \in found : group[r] = group[s]} : s \in found}

\* persist_cluster keeps a key's first work: of an earlier execution, or the
\* cluster whose first paper comes first.
Kept(cluster) ==
  /\ \A work \in works : work.key # cluster_key(cluster)
  /\ \A other \in Clusters : cluster_key(other) = cluster_key(cluster)
                               => \E r \in cluster : \A s \in other : r <= s

\* Only the decisions between two papers of the cluster are stored with it.
Work(cluster) ==
  [key |-> cluster_key(cluster), papers |-> cluster, preferred |-> Preferred(cluster),
   decisions |-> {d \in decisions : d[1][1] \in cluster /\ d[1][2] \in cluster}]

Ready ==
  \/ step = "compare" /\ todo = {} /\ found = {}
  \/ step = "group" /\ item = NONE /\ DOMAIN group = found

Persist ==
  /\ Ready
  /\ works' = works \cup {Work(cluster) : cluster \in {c \in Clusters : Kept(c)}}
  /\ step' = "done"
  /\ UNCHANGED <<paper, found, parent, todo, decisions, item, root, group, rounds>>

Next ==
  \/ \E pair \in todo : Compare(pair) \/ LeftFound(pair) \/ Union(pair)
  \/ Halve \/ Group \/ Grouped \/ Persist \/ Replay

Spec == Init /\ [][Next]_vars
FairSpec == Spec /\ WF_vars(Next)

-----------------------------------------------------------------------------
(* Properties *)

TypeOK ==
  /\ paper \in [Records -> Kinds]
  /\ found \subseteq Records
  /\ parent \in [found -> found]
  /\ todo \subseteq Pairs(found)
  /\ decisions \subseteq (Pairs(found) \X {"MERGE", "REVIEW"})
  /\ step \in {"compare", "left", "right", "group", "done"}
  /\ item \in found \cup {NONE} /\ root \in found \cup {NONE}
  /\ step \in {"left", "right"} => item # NONE /\ todo # {}
  /\ step = "right" => root # NONE
  /\ DOMAIN group \subseteq found /\ group \in [DOMAIN group -> found]
  /\ rounds \in 1 .. MaxRounds

\* A set of papers no merge decision leads out of.
Closed(set) == \A d \in decisions : d[2] = "MERGE" => (d[1][1] \in set <=> d[1][2] \in set)

Connected(r, s) == \A set \in SUBSET found : Closed(set) /\ r \in set => s \in set

\* The works are the connected components of the merge decisions, whatever the
\* order of the comparisons and however the union-find was compressed: two papers
\* share a root exactly if a chain of merges joins them.
ClustersAreComponents ==
  step = "group" /\ DOMAIN group = found =>
    \A r, s \in found : group[r] = group[s] <=> Connected(r, s)

\* Two clusters of one execution share a key only if neither is identified: a
\* paper whose work carries a DOI or an arXiv identifier is never dropped for
\* the work of another paper.
KeysIdentify ==
  step = "group" /\ DOMAIN group = found =>
    \A c, d \in Clusters :
      c # d /\ cluster_key(c) = cluster_key(d) =>
        LET p == paper[Preferred(c)] IN p.doi = NONE /\ p.arxiv = NONE

\* The walk of find ends, and every execution of the stage comes to its works.
StageEnds == step = "compare" ~> step = "done"

\* Refuted: a decision left for review between two works of the run is stored
\* where the release gate counts the unresolved ones.
ReviewsCounted ==
  step = "done" =>
    \A d \in decisions : \A v, w \in works :
      d[2] = "REVIEW" /\ v # w /\ d[1][1] \in v.papers /\ d[1][2] \in w.papers
        => d \in v.decisions \cup w.decisions
=============================================================================
