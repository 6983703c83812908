------------------------------ MODULE Matcher ------------------------------
(***************************************************************************)
(* How a receiver's files are matched with the roles a Change File         *)
(* describes, without looking at their paths                               *)
(* (connected_change/matcher.py, descriptors.py).                          *)
(*                                                                         *)
(* A member is a file of one of the two sides.  `d' below maps each member *)
(* to its descriptor, and a colouring maps each member to the class of the *)
(* members, of both sides, whose hash equals its own.                      *)
(***************************************************************************)
EXTENDS Links

Sides == {"origin", "receiver"}
Members(side, files) == {side} \X files
On(side, members) == {m \in members : m[1] = side}

\* What is told of a file.  A protected or an ordinary file is known by its
\* bytes, a Markdown file by its text and its links' shapes and targets.
\* Absent fields are empty.
Descriptor(side, files, p) ==
    LET kind == IF IsMarkdown(p) /\ ~Protected(p) THEN "markdown" ELSE "ordinary"
        links == IF kind = "markdown" THEN files[p].links ELSE <<>>
    IN [kind |-> kind, protected |-> Protected(p), suffix |-> Suffix[Last(p)],
        place |-> IF Protected(p) THEN p ELSE <<>>,
        bytes |-> IF kind = "ordinary" THEN {files[p]} ELSE {},
        text |-> IF kind = "markdown" THEN {files[p].text} ELSE {},
        shape |-> [i \in DOMAIN links |-> links[i].shape],
        target |-> [i \in DOMAIN links |-> <<side, Graph(files)[<<p, i>>]>>]]
Descriptors(side, files) ==
    [m \in Members(side, DOMAIN files) |-> Descriptor(side, files, m[2])]

\* A Change File's roles and a receiver's files side by side.
Compared(role, files) ==
    [m \in DOMAIN role \cup Members("receiver", DOMAIN files) |->
       IF m \in DOMAIN role THEN role[m] ELSE Descriptor("receiver", files, m[2])]

Base(e) == [e EXCEPT !.target = <<>>]

\* The same values occur equally often on both sides (Counter(...) == Counter(...)).
SameTally(f) ==
    \A m \in DOMAIN f :
      Cardinality({n \in On("origin", DOMAIN f) : f[n] = f[m]})
        = Cardinality({n \in On("receiver", DOMAIN f) : f[n] = f[m]})

Of(d, kind) == {m \in DOMAIN d : d[m].kind = kind}

\* The first difference the preflight finds, or none.
Blocker(d, empty, required) ==
    LET origins == Cardinality(On("origin", DOMAIN d))
        receivers == Cardinality(On("receiver", DOMAIN d))
        Kept == {m \in DOMAIN d : d[m].protected}
    IN IF receivers < origins THEN "receiver_member_missing"
       ELSE IF receivers > origins THEN "receiver_member_extra"
       ELSE IF empty # required THEN "receiver_empty_directory_mismatch"
       ELSE IF ~SameTally([m \in Kept |-> <<d[m].place, d[m].bytes, d[m].suffix>>])
            THEN "receiver_protected_member_mismatch"
       ELSE IF ~SameTally([m \in DOMAIN d |-> <<d[m].kind, d[m].protected>>])
            THEN "receiver_payload_changed"
       ELSE IF ~SameTally([m \in DOMAIN d |-> <<d[m].kind, d[m].protected, d[m].suffix>>])
            THEN "receiver_suffix_mismatch"
       ELSE IF ~SameTally([m \in Of(d, "ordinary") |-> <<d[m].bytes, d[m].protected>>])
            THEN "receiver_payload_changed"
       ELSE IF ~SameTally([m \in Of(d, "markdown") |-> d[m].text])
            THEN "receiver_markdown_content_changed"
       ELSE IF ~SameTally([m \in Of(d, "markdown") |-> <<d[m].text, d[m].shape>>])
            THEN "receiver_relationship_changed"
       ELSE "none"

\* Mutant: a round counts links and does not look where they lead.
SignatureByCount(d, color, m) ==
    LET incoming == {l \in UNION {{n} \X DOMAIN d[n].target : n \in On(m[1], DOMAIN d)} :
                       d[l[1]].target[l[2]] = m}
    IN [base |-> Base(d[m]), outgoing |-> Len(d[m].target), incoming |-> Cardinality(incoming)]

\* What is hashed in a round: what the file is, where its links lead, in order,
\* and which links lead to it, in no order but as often as they are.
Signature(d, color, m) ==
    LET links == UNION {{n} \X DOMAIN d[n].target : n \in On(m[1], DOMAIN d)}
        incoming == {l \in links : d[l[1]].target[l[2]] = m}
        Told(l) == <<color[l[1]], l[2], d[l[1]].shape[l[2]]>>
    IN [base |-> Base(d[m]),
        outgoing |-> [i \in DOMAIN d[m].target |->
                        <<d[m].shape[i], color[d[m].target[i]]>>],
        incoming |-> [t \in {Told(l) : l \in incoming} |->
                        Cardinality({l \in incoming : Told(l) = t})]]

Colored(hash) == [m \in DOMAIN hash |-> {n \in DOMAIN hash : hash[n] = hash[m]}]
Initial(d) == Colored([m \in DOMAIN d |-> Base(d[m])])
Refined(d, color) == Colored([m \in DOMAIN d |-> Signature(d, color, m)])

SamePartition(side, before, after) ==
    \A m, n \in On(side, DOMAIN before) :
      (before[m] = before[n]) <=> (after[m] = after[n])

Ambiguous(color) ==
    \E m \in On("origin", DOMAIN color) : Cardinality(On("origin", color[m])) > 1

\* The receiver's file of each role.
Mapping(color) ==
    [p \in {m[2] : m \in On("origin", DOMAIN color)} |->
       (CHOOSE n \in On("receiver", DOMAIN color) : n \in color[<<"origin", p>>])[2]]
-----------------------------------------------------------------------------
(***************************************************************************)
(* What the matcher is for: two projects are the same when their files can *)
(* be paired so that paired files agree and so do the targets of their     *)
(* links.                                                                  *)
(***************************************************************************)
SameProject(d, f) ==
    \A m \in On("origin", DOMAIN d) :
      LET n == <<"receiver", f[m[2]]>>
      IN /\ Base(d[m]) = Base(d[n])
         /\ \A i \in DOMAIN d[m].target :
              d[n].target[i] = <<"receiver", f[d[m].target[i][2]]>>

Pairings(d) == Bijection({m[2] : m \in On("origin", DOMAIN d)}, {m[2] : m \in On("receiver", DOMAIN d)})
=============================================================================
