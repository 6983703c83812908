------------------------- MODULE MCConnectedChange -------------------------
(* Folders, plans and copies for TLC: one small folder with every kind of    *)
(* file for the planner, and all ways three notes can link to each other for *)
(* the matcher.                                                              *)
EXTENDS ConnectedChange

MCName == {"a.md", "A.md", "b.md", "c.md", "n.txt", "con.md", "a.mkd",
           "secrets.md", "d", "D", "e", ".h"}
MCFold == [n \in MCName |-> CASE n = "A.md" -> "a.md" [] n = "D" -> "d" [] OTHER -> n]
MCSuffix == [n \in MCName |->
    CASE n \in {"d", "D", "e", ".h"} -> "" [] n = "n.txt" -> "txt"
      [] n = "a.mkd" -> "mkd" [] OTHER -> "md"]

Link(dest) == [dest |-> dest, shape |-> "link"]
File(text, links) == [text |-> text, links |-> links]
Folder(files, empty) == [files |-> files, empty |-> empty]

(* For the planner: a link that is not written the short way, a link to a    *)
(* protected file, an empty folder.                                          *)
a == <<"a.md">>
b == <<"d", "b.md">>
Home == Folder(
    a :> File("t", <<Link(<<".", "d", "b.md">>)>>) @@
    b :> File("u", <<Link(<<"..", ".h", "n.txt">>)>>) @@
    <<".h", "n.txt">> :> File("t", <<>>), {<<"e">>})
Cased == Folder(a :> File("t", <<Link(<<"A.md">>)>>) @@ <<"A.md">> :> File("u", <<>>), {})
Unreadable == {
    Folder(a :> File("t", <<Link(<<"..", "a.md">>)>>), {}),
    Folder(a :> File("t", <<Link(<<"b.md">>)>>), {}),
    Folder(a :> File("t", <<>>), {<<"d">>, <<"D">>}),
    Folder(<<".h", "a.md">> :> File("t", <<Link(<<"a.md">>)>>), {})}

Places == {prefix \o <<name>> :
    prefix \in {<<>>, <<"d">>, <<"D">>, <<"e">>, <<".h">>, <<"a.md">>},
    name \in {"a.md", "A.md", "b.md", "con.md", "n.txt", "secrets.md"}}
HomeEntries ==
    [{a, b} -> Places] \cup [{a} -> Places] \cup [{b} -> Places]
      \cup {[p \in Paths(Home) |-> p]}

(* For the matcher: three notes with at most one link each, and rings of four.*)
Notes == <<<<"a.md">>, <<"b.md">>, <<"d", "c.md">>>>
Spelled(target, from, long) ==
    (IF long THEN <<".">> ELSE <<>>) \o RelativePath(target, from)
Drawn(at, text, leads, long) == Folder(
    [p \in {at[i] : i \in DOMAIN at} |->
       LET i == CHOOSE j \in DOMAIN at : at[j] = p
       IN File(text[i], [k \in 1..Len(leads[i]) |->
                          Link(Spelled(at[leads[i][k]], p, long))])], {})
Leads == {<<>>, <<1>>, <<2>>, <<3>>}
Texts == {<<"t", "t", "t">>, <<"t", "t", "u">>}
Drawings == Texts \X [1..3 -> Leads]
Corners == <<<<"a.md">>, <<"b.md">>, <<"d", "a.md">>, <<"d", "b.md">>>>
Ring(leads) == Drawn(Corners, <<"t", "t", "t", "t">>, leads, FALSE)
Rings == {Ring(<<<<2>>, <<3>>, <<4>>, <<1>>>>), Ring(<<<<2>>, <<1>>, <<4>>, <<3>>>>),
          Ring(<<<<2>>, <<3>>, <<4>>, <<>>>>), Ring(<<<<2, 3>>, <<4>>, <<4>>, <<>>>>)}

MCOrigins == {Home, Cased} \cup Unreadable \cup Rings
               \cup {Drawn(Notes, w[1], w[2], FALSE) : w \in Drawings}

(* One map turns each other folder around. *)
MCEntries(folder) ==
    CASE folder = None -> {}
      [] folder = Home -> HomeEntries
      [] folder = Cased -> [Paths(Cased) -> {<<"a.md">>, <<"A.md">>, <<"b.md">>, <<"d", "a.md">>}]
      [] OTHER -> {[p \in Paths(folder) |-> IF Len(p) = 1 THEN <<"D">> \o p ELSE <<"e">> \o p]}

(* The copies of a folder: all its files under other names. *)
Copied(folder, f, long) == Folder(
    [q \in {f[p] : p \in Paths(folder)} |->
       LET p == CHOOSE r \in Paths(folder) : f[r] = q
       IN [folder.files[p] EXCEPT !.links = [i \in DOMAIN folder.files[p].links |->
             [folder.files[p].links[i] EXCEPT
                !.dest = Spelled(f[Graph(folder.files)[<<p, i>>]], q, long)]]]],
    folder.empty)
Copies(folder) ==
    {Copied(folder, f, long) :
       f \in Bijection(Paths(folder), Paths(folder)), long \in BOOLEAN}

(* One edit of a file or of the folder. *)
Edited(folder) ==
    {[folder EXCEPT !.files[p].text = IF @ = "t" THEN "u" ELSE "t"] : p \in Paths(folder)}
    \cup {[folder EXCEPT !.files[p].links[1].dest = Spelled(q, p, FALSE)] :
            p \in {r \in Paths(folder) : folder.files[r].links # <<>>}, q \in Paths(folder)}
    \cup {[folder EXCEPT !.files[p].links = Append(@, Link(<<Last(p)>>))] : p \in Paths(folder)}
    \cup {[folder EXCEPT !.files[p].links[1].shape = "image"] :
            p \in {r \in Paths(folder) : folder.files[r].links # <<>>}}
    \cup {[folder EXCEPT !.files = @ @@ (<<"e", "a.md">> :> File("t", <<>>))],
          [folder EXCEPT !.files = Restrict(@, DOMAIN @ \ {<<"d", "c.md">>})],
          [folder EXCEPT !.empty = {<<"e">>}],
          [folder EXCEPT !.files = Restrict(@, DOMAIN @ \ {<<"d", "c.md">>})
                                     @@ (<<"n.txt">> :> File("t", <<>>))]}

MCReceivers(folder) ==
    CASE folder \in {None} \cup Unreadable -> {}
      [] folder = Home ->
           {Home, Copied(Home, a :> <<"d", "A.md">> @@ b :> b
                                 @@ <<".h", "n.txt">> :> <<".h", "n.txt">>, TRUE),
            Copied(Home, a :> <<"secrets.md">> @@ b :> b
                           @@ <<".h", "n.txt">> :> <<".h", "n.txt">>, FALSE),
            Copied(Home, a :> <<"a.mkd">> @@ b :> b
                           @@ <<".h", "n.txt">> :> <<".h", "n.txt">>, FALSE),
            [Home EXCEPT !.files[<<".h", "n.txt">>].text = "u"]}
      [] folder = Cased -> Copies(Cased)
      [] folder \in Rings -> Rings \cup {Copied(folder,
           [p \in Paths(folder) |-> IF Len(p) = 1 THEN <<"d">> \o p ELSE Tail(p)], TRUE)}
      [] OTHER -> Copies(folder) \cup Edited(folder)
=============================================================================
