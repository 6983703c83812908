------------------------------- MODULE Links -------------------------------
(***************************************************************************)
(* Links between the Markdown files of a project: how a destination is     *)
(* resolved and what is refused (folder_refactor/markdown_links.py), and   *)
(* how every destination is rewritten for an accepted map.                 *)
(*                                                                         *)
(* A file is its text outside the destinations, and its links in order;    *)
(* each has the components of its destination and its shape, that is       *)
(* whether it is an image, how it is quoted, and its fragment.             *)
(***************************************************************************)
EXTENDS ProjectTree

CONSTANTS Text, Shape, Markdown  \* Markdown: the suffixes of Markdown files

IsMarkdown(p) == Suffix[Last(p)] \in Markdown

Component == Name \cup {".", ".."}
Outside == <<"..">>

\* A folder as it is on a disk: finitely many files, nothing below a file, and
\* empty folders that are empty.
FileContent == [text : Text, links : Seq([dest : Seq(Component), shape : Shape])]
IsFolder(project) ==
    /\ project = [files |-> project.files, empty |-> project.empty]
    /\ project.files \in [Paths(project) -> FileContent]
    /\ IsFiniteSet(Paths(project))
    /\ Paths(project) \cup project.empty \subseteq Seq(Name)
    /\ Paths(project) \cap Directories(Paths(project), project.empty) = {}
    /\ project.empty \cap UNION {Ancestors(p) : p \in Paths(project) \cup project.empty} = {}

\* The path a destination leads to from a file, Outside when it leaves the root.
Resolved(source, dest) ==
    LET at[i \in 0..Len(dest)] ==
          IF i = 0 THEN Front(source)
          ELSE LET here == at[i - 1]
               IN IF here = Outside \/ (dest[i] = ".." /\ here = <<>>) THEN Outside
                  ELSE CASE dest[i] = "." -> here
                         [] dest[i] = ".." -> Front(here)
                         [] OTHER -> Append(here, dest[i])
    IN at[Len(dest)]

\* The canonical destination from one file to another.
RelativePath(target, source) ==
    LET start == Front(source)
        shared == {k \in 0..Len(start) :
                     k <= Len(target) /\ SubSeq(start, 1, k) = SubSeq(target, 1, k)}
        common == CHOOSE k \in shared : \A j \in shared : j <= k
    IN [i \in 1..(Len(start) - common) |-> ".."]
         \o SubSeq(target, common + 1, Len(target))

References(files) ==
    UNION {{p} \X DOMAIN files[p].links : p \in {q \in DOMAIN files : IsMarkdown(q)}}
Graph(files) ==
    [r \in References(files) |-> Resolved(r[1], files[r[1]].links[r[2]].dest)]

\* A project is read only if every local link of it leads to a file, and if no
\* protected file has one (scan_folder_with_references).
ReadableLinks(project) ==
    LET graph == Graph(project.files)
    IN \A r \in DOMAIN graph :
         /\ graph[r] \in Paths(project)
         /\ graph[r] \notin Directories(Paths(project), project.empty)
         /\ ~Protected(r[1])
Readable(project) == ScannableTree(project) /\ ReadableLinks(project)

\* The destination of a link when its file and its target are where the plan
\* puts them; whether that is another text than the one there is.
Proposed(graph, plan) ==
    [r \in DOMAIN graph |-> RelativePath(plan[graph[r]], plan[r[1]])]
Rewritten(files, graph, plan) ==
    {r \in DOMAIN graph :
       files[r[1]].links[r[2]].dest # Proposed(graph, plan)[r]}

\* What derive_reference_rewrites refuses.
Derivable(files, graph, plan) ==
    \A r \in DOMAIN graph :
      /\ {r[1], graph[r]} \subseteq DOMAIN plan
      /\ Resolved(plan[r[1]], Proposed(graph, plan)[r]) = plan[graph[r]]
      /\ Protected(r[1]) => r \notin Rewritten(files, graph, plan)

\* A file with its links replaced: all of them as soon as one is rewritten.
ApplyRewrites(file, p, graph, plan) ==
    [file EXCEPT !.links =
       [i \in DOMAIN file.links |->
          [file.links[i] EXCEPT !.dest = Proposed(graph, plan)[<<p, i>>]]]]
=============================================================================
