------------------------ MODULE MCEntityResolution ------------------------
(* A small instance of EntityResolution: six kinds of metadata over three *)
(* titles, one DOI, one arXiv identifier and three authors.                *)
EXTENDS EntityResolution

MCKind(doi, arxiv, title, authors, year, version) ==
  [doi |-> doi, arxiv |-> arxiv, title |-> title, authors |-> authors,
   year |-> year, version |-> version]

\* A preprint, its version of record, an undated copy of the title by another
\* author, a near title without identifiers, a conference version with both
\* identifiers, and a record of the preprint under another title.
MCKinds ==
  {MCKind(NONE, "a", "t", {"x"}, 2020, "PREPRINT"),
   MCKind("d", NONE, "t", {"x"}, 2021, "VERSION_OF_RECORD"),
   MCKind(NONE, NONE, "t", {"z"}, NoYear, "UNKNOWN"),
   MCKind(NONE, NONE, "u", {"x"}, NoYear, "UNKNOWN"),
   MCKind("d", "a", "v", {"x", "y"}, 2023, "CONFERENCE_VERSION"),
   MCKind(NONE, "a", "v", {"y"}, NoYear, "UNKNOWN")}

MCTitleScore ==
  [p \in {"t", "u", "v"} \X {"t", "u", "v"} |->
     IF p[1] = p[2] THEN 100
     ELSE IF {p[1], p[2]} = {"t", "u"} THEN 86
     ELSE IF {p[1], p[2]} = {"u", "v"} THEN 93 ELSE 40]
=============================================================================
