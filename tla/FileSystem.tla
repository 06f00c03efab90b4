----------------------------- MODULE FileSystem -----------------------------
(***************************************************************************)
(* Stat, ReadDir, Getwd and Mkdir (file_system.go) against a server whose  *)
(* files other clients change meanwhile.  One call is one behaviour; each  *)
(* command with its answer is one step, and a call that falls back to      *)
(* other commands takes several, on whatever connections the pool has.     *)
(*                                                                         *)
(* The server is external.  Servers differ in which commands they know, in *)
(* the format of LIST, in what they make of "LIST -d", and in the lines    *)
(* that are not entries.  A path is a sequence of up to two names, a name  *)
(* is a text.                                                              *)
(***************************************************************************)
EXTENDS Listing

CONSTANTS
  Tokens,      \* what the texts of names are made of
  NameSets,    \* sets of names of which a tree is built
  Folders,     \* names whose directories may have entries
  Kinds,       \* what the server's tree may have at a path of length 1 and 2
  Now,         \* the date
  MaxChanges   \* bound: changes by other clients during the call

ASSUME FileSystemAssumption ==
  /\ Now \in Nat /\ MaxChanges \in Nat
  /\ \A len \in {1, 2} : Kinds[len] \subseteq {"none", "file", "link", "dir"} /\ "dir" \in Kinds[len]

(* A name has no slash, is no directory or its parent, not even without    *)
(* the blanks that a parser drops, and is not all blanks.  The tokens that *)
(* have blanks of their own are neither first nor last in it but for       *)
(* blanks, and none separates a percent sign from another (Sprintf takes   *)
(* it for a flag).                                                         *)
Name(n) ==
  /\ n \in Seq(Tokens) \ {<<>>}
  /\ NonBlank(n) # {}
  /\ {n, TrimLeft(n), Trim(n)} \cap {<<".">>, <<"..">>} = {}
  /\ {n[Min(NonBlank(n))], n[Max(NonBlank(n))]} \cap {"->", "semicolon"} = {}
  /\ \A i \in 1..(Len(n) - 1) : n[i] = "%" => n[i + 1] # "blank"

ASSUME NamesAssumption ==
  /\ "/" \notin Tokens
  /\ \A names \in NameSets : IsFiniteSet(names) /\ \A n \in names : Name(n)

VARIABLES
  srv,       \* the server's commands and formats
  tree,      \* path -> "none", "file", "link" or "dir"
  changes,   \* number of changes by other clients
  call,      \* the method and its argument
  pc,        \* the next command, or "done"
  result,    \* what the call returned
  seen,      \* what was at call.path during the call
  listed     \* the directory as it was when it was listed

vars == <<srv, tree, changes, call, pc, result, seen, listed>>

-----------------------------------------------------------------------------
(* The server                                                              *)

At(t, p) == IF p = <<>> THEN "dir" ELSE IF p \in DOMAIN t THEN t[p] ELSE "none"

Entries(p) == {q \in DOMAIN tree : q # <<>> /\ Front(q) = p /\ tree[q] # "none"}

Full(p) == IF p = <<>> THEN <<"/">>
           ELSE (IF Len(p) = 2 THEN <<"/">> \o p[1] ELSE <<>>) \o <<"/">> \o Last(p)

(* How MLST and LIST -d call it; servers differ on the root. *)
FullNames(p) == IF p = <<>> THEN {<<"/">>, <<".">>} ELSE {Full(p)}

(* What was last changed in p, in months: in this month, in the last       *)
(* half-year before the turn of the year, or long ago.                     *)
Modified(p) == Now - (IF Len(p) = 2 THEN 8 ELSE IF Contains(Last(p), "a") THEN 3 ELSE 0)

Blank == [form |-> "blank"]

Self(type) == [form |-> "facts", type |-> type, text |-> <<".">>, complete |-> TRUE, mtime |-> Now]

FactsLine(p, text) ==
  [form |-> "facts", text |-> text, complete |-> srv.complete, of |-> p,
   type |-> CASE At(tree, p) = "link" -> "os.unix=slink" [] OTHER -> At(tree, p),
   mtime |-> IF p = <<>> THEN Now ELSE Modified(p)]

LsLine(p, text) ==
  [form |-> "ls", of |-> p,
   type |-> CASE At(tree, p) = "link" -> "l" [] At(tree, p) = "dir" -> "d" [] OTHER -> "-",
   text |-> IF At(tree, p) = "link" THEN text \o <<"->", "etc", "/", "real">> ELSE text,
   month |-> (IF p = <<>> THEN Now ELSE Modified(p)) % 12,
   year |-> IF p = <<>> \/ Modified(p) > Now - 6 THEN NoYear ELSE Modified(p) \div 12]

DosLine(p) ==
  [form |-> "dos", of |-> p, text |-> Last(p), mtime |-> Modified(p),
   type |-> IF At(tree, p) = "dir" THEN "<DIR>" ELSE "size"]

Dots(name) == [form |-> "ls", type |-> "d", text |-> <<name>>, month |-> 0, year |-> 0]

ListLine(p, text) == IF srv.dos /\ p # <<>> THEN DosLine(p) ELSE LsLine(p, text)

Lines(lines) == [is |-> "lines", lines |-> lines]
Refused == [is |-> "refused"]          \* 550: no such file
Unsupported == [is |-> "unsupported"]  \* 500 or 502
Failed == [is |-> "failed"]            \* no answer, or another code

(* An answer to MLST has the entry between two other lines. *)
MLST(p) ==
  {Failed} \cup
  (IF ~srv.mlst THEN {Unsupported}
   ELSE IF At(tree, p) = "none" THEN {Refused}
   ELSE {Lines(<<FactsLine(p, text)>>) : text \in FullNames(p)} \cup
        {Lines(<<Blank>>), Lines(<<>>)})

MLSD(p) ==
  {Failed} \cup
  (IF ~srv.mlsd THEN {Unsupported}
   ELSE IF At(tree, p) # "dir" THEN {Refused}
   ELSE {Lines({FactsLine(q, Last(q)) : q \in Entries(p)} \cup
               (IF srv.extras THEN {Blank, Self("cdir"), Self("pdir")} ELSE {}))})

LIST(p) ==
  {Failed} \cup
  (IF At(tree, p) = "none" THEN {Refused, Lines({})}
   ELSE IF At(tree, p) # "dir" THEN {Lines({ListLine(p, Full(p))})}
   ELSE {Lines({ListLine(q, Last(q)) : q \in Entries(p)} \cup
               (IF srv.extras THEN {[form |-> "total"], Dots("."), Dots("..")} ELSE {}))})

(* LIST -d: the server knows the flag, ignores it, or takes it for a name. *)
ListEntry(p) ==
  CASE srv.dash = "known" /\ At(tree, p) # "none" ->
         {Failed} \cup {Lines({ListLine(p, text)}) : text \in FullNames(p)}
    [] srv.dash = "ignored" -> LIST(p)
    [] OTHER -> {Failed, Refused}

(* Where the token at i goes when each quote before it takes two places. *)
Place(text, i) == i + Cardinality({j \in 1..(i - 1) : text[j] = "'"})

Doubled(text) ==
  [k \in 1..(Place(text, Len(text) + 1) - 1) |->
     text[CHOOSE i \in DOMAIN text : k \in Place(text, i)..(Place(text, i + 1) - 1)]]

(* PWD and MKD answer with the name in quotes, a quote in it doubled, and  *)
(* maybe a comment; some servers leave out the name.                       *)
NameReplies(p) ==
  LET quoted == <<"'">> \o Doubled(Full(p)) \o <<"'">>
  IN {quoted, quoted \o <<"created">>, <<"done">>}

-----------------------------------------------------------------------------
(* The client                                                              *)

Return(outcome, infos) == pc' = "done" /\ result' = [is |-> outcome, infos |-> infos]

Goto(command) == pc' = command /\ UNCHANGED result

Unlisted == [dir |-> FALSE, entries |-> {}]

(* Has a "%", which is all that a second formatting looks at. *)
Percent(p) == \E i \in DOMAIN p : Contains(p[i], "%")

(* The path that arrives: controlStringList and dataStringList format the  *)
(* command, and sendCommand takes it for a format again.                   *)
Asked(p) == IF Percent(p) THEN [i \in DOMAIN p |-> Formatted(p[i])] ELSE p

(* filepath.Base of the path, and the directory that ReadDir lists. *)
Want == IF call.path = <<>> THEN <<".">> ELSE Last(call.path)

Dir == IF call.op = "Stat" THEN Front(call.path) ELSE call.path

(* Faulty: returns what the parser returned. *)
StatMLSTUnchecked ==
  /\ pc = "MLST"
  /\ \E reply \in MLST(Asked(call.path)) :
       CASE reply.is = "unsupported" -> Goto("LIST-d")
         [] reply.is = "refused" -> Return("notFound", {})
         [] reply.is = "failed" -> Return("error", {})
         [] reply.is = "lines" ->
              IF Len(reply.lines) # 1 THEN Return("error", {})
              ELSE Return("ok", {parseMLST(reply.lines[1], FALSE)})
  /\ UNCHANGED <<srv, tree, changes, call, seen, listed>>

(* Stat: MLST, and its fallback if the server does not know the command. *)
StatMLST ==
  /\ pc = "MLST"
  /\ \E reply \in MLST(Asked(call.path)) :
       CASE reply.is = "unsupported" -> Goto("LIST-d")
         [] reply.is = "refused" -> Return("notFound", {})
         [] reply.is = "failed" -> Return("error", {})
         [] reply.is = "lines" ->
              IF Len(reply.lines) # 1 THEN Return("error", {})
              ELSE LET info == parseMLST(reply.lines[1], FALSE)
                   IN IF info.is = "info" THEN Return("ok", {info}) ELSE Return("error", {})
  /\ UNCHANGED <<srv, tree, changes, call, seen, listed>>

(* Faulty: trusts a single line. *)
StatViaLISTUnchecked ==
  /\ pc = "LIST-d"
  /\ \E reply \in ListEntry(Asked(call.path)) :
       IF reply.is = "lines" /\ Cardinality(reply.lines) = 1
       THEN \E line \in reply.lines : Return("ok", {parseLIST(line, Now, FALSE)})
       ELSE IF call.path = <<>> THEN Return("error", {})
       ELSE Goto("MLSD")
  /\ UNCHANGED <<srv, tree, changes, call, seen, listed>>

(* statViaLIST: one line with the right name is the answer; otherwise, and *)
(* after any error, the parent is listed, if there is one.                 *)
StatViaLIST ==
  /\ pc = "LIST-d"
  /\ \E reply \in ListEntry(Asked(call.path)) :
       LET infos == IF reply.is # "lines" THEN {}
                    ELSE {parseLIST(line, Now, FALSE) : line \in reply.lines}
           found == {i \in infos : i.is = "info" /\ i.name = Want}
       IN IF Cardinality(infos) = 1 /\ found # {} THEN Return("ok", found)
          ELSE IF call.path = <<>> THEN Return("error", {})
          ELSE Goto("MLSD")
  /\ UNCHANGED <<srv, tree, changes, call, seen, listed>>

(* The loop of ReadDir over the lines, and Stat's search in its result. *)
Parsed(infos) ==
  LET entries == {i \in infos : i.is = "info"}
      found == {i \in entries : i.name = Want}
  IN IF ParseError \in infos THEN Return("error", {})
     ELSE IF call.op = "ReadDir" THEN Return("ok", entries)
     ELSE IF found = {} THEN Return("notFound", {})
     ELSE \E i \in found : Return("ok", {i})

Snapshot == [dir |-> At(tree, Asked(Dir)) = "dir",
             entries |-> {[of |-> q, kind |-> tree[q]] : q \in Entries(Asked(Dir))}]

ReadDirMLSD ==
  /\ pc = "MLSD"
  /\ listed' = Snapshot
  /\ \E reply \in MLSD(Asked(Dir)) :
       CASE reply.is = "unsupported" -> Goto("LIST")
         [] reply.is = "refused" -> Return(IF call.op = "Stat" THEN "notFound" ELSE "error", {})
         [] reply.is = "failed" -> Return("error", {})
         [] reply.is = "lines" -> Parsed({parseMLST(line, TRUE) : line \in reply.lines})
  /\ UNCHANGED <<srv, tree, changes, call, seen>>

ReadDirLIST ==
  /\ pc = "LIST"
  /\ listed' = Snapshot
  /\ \E reply \in LIST(Asked(Dir)) :
       CASE reply.is = "refused" -> Return(IF call.op = "Stat" THEN "notFound" ELSE "error", {})
         [] reply.is = "failed" -> Return("error", {})
         [] reply.is = "lines" -> Parsed({parseLIST(line, Now, TRUE) : line \in reply.lines})
  /\ UNCHANGED <<srv, tree, changes, call, seen>>

(* Any answer but 257 is an error.  A 257 without a name is one for Getwd, *)
(* while Mkdir then answers with the path it was given.                    *)
Getwd ==
  /\ pc = "PWD"
  /\ \/ Return("error", {})
     \/ \E msg \in NameReplies(call.path) :
          IF HasDirName(msg) THEN Return("ok", {extractDirName(msg)}) ELSE Return("error", {})
  /\ UNCHANGED <<srv, tree, changes, call, seen, listed>>

Mkdir ==
  /\ pc = "MKD"
  /\ \/ Return("error", {}) /\ UNCHANGED tree
     \/ /\ At(tree, Front(call.path)) = "dir" /\ tree[call.path] = "none"
        /\ tree' = [tree EXCEPT ![call.path] = "dir"]
        /\ \E msg \in NameReplies(call.path) :
             Return("ok", {IF HasDirName(msg) THEN extractDirName(msg) ELSE Full(call.path)})
  /\ UNCHANGED <<srv, changes, call, seen, listed>>

-----------------------------------------------------------------------------
(* Only directories have entries; LIST cannot tell an arrow in the path of *)
(* a link from its own; Microsoft's server shows no links.                 *)
Tree(t) ==
  /\ \A p \in DOMAIN t : t[p] # "none" => At(t, Front(p)) = "dir"
  /\ \A p \in DOMAIN t : t[p] = "link" =>
       ~srv.dos /\ \A i \in DOMAIN p : ~Contains(p[i], "->")

(* External: another client creates, deletes or replaces something. *)
Change ==
  /\ pc # "done" /\ changes < MaxChanges
  /\ changes' = changes + 1
  /\ \E p \in DOMAIN tree : \E kind \in Kinds[Len(p)] \ {tree[p]} :
       tree' = [tree EXCEPT ![p] = kind]
  /\ Tree(tree')
  /\ seen' = seen \cup {At(tree', call.path)}
  /\ UNCHANGED <<srv, call, pc, result, listed>>

(* There are two levels, the second below some names of the first. *)
PathsOver(names) ==
  {<<n>> : n \in names} \cup {<<d, n>> : d \in names \cap Folders, n \in names}

Init ==
  /\ srv \in [mlst : BOOLEAN, mlsd : BOOLEAN, complete : BOOLEAN, dos : BOOLEAN,
              extras : BOOLEAN, dash : {"known", "ignored", "refused"}]
  /\ srv.dos => ~srv.extras
  /\ \E names \in NameSets :
       /\ tree \in {t \in [PathsOver(names) -> Kinds[1] \cup Kinds[2]] :
                      /\ \A p \in PathsOver(names) : t[p] \in Kinds[Len(p)]
                      /\ Tree(t)}
       /\ call \in [op : {"Stat", "ReadDir", "Getwd", "Mkdir"},
                    path : {<<>>} \cup PathsOver(names)]
  /\ call.op = "Getwd" => At(tree, call.path) = "dir"
  /\ call.op = "Mkdir" => call.path # <<>>
  /\ pc = CASE call.op = "Stat" -> "MLST" [] call.op = "ReadDir" -> "MLSD"
            [] call.op = "Getwd" -> "PWD" [] call.op = "Mkdir" -> "MKD"
  /\ changes = 0
  /\ result = [is |-> "none", infos |-> {}]
  /\ seen = {At(tree, call.path)}
  /\ listed = Unlisted

Next ==
  \/ StatMLST \/ StatViaLIST \/ ReadDirMLSD \/ ReadDirLIST
  \/ Getwd \/ Mkdir \/ Change

Spec == Init /\ [][Next]_vars

-----------------------------------------------------------------------------
(* Properties                                                              *)

(* Every variable stays in its range; a Stat that succeeds returns one     *)
(* FileInfo, never nil or an error taken for one.                          *)
TypeOK ==
  /\ \A p \in DOMAIN tree : tree[p] \in Kinds[Len(p)]
  /\ changes \in 0..MaxChanges
  /\ pc \in {"MLST", "LIST-d", "MLSD", "LIST", "PWD", "MKD", "done"}
  /\ (pc = "done") <=> (result.is \in {"ok", "notFound", "error"})
  /\ (call.op = "Stat" /\ result.is = "ok") =>
       Cardinality(result.infos) = 1 /\ \A i \in result.infos : i.is = "info"

(* A FileInfo with the name, the kind and the date of what is at p.  There *)
(* is no right name for the root, as file_system_test.go:357-361 explains. *)
Describes(info, p, name, kind) ==
  /\ p # <<>> => info.name = name
  /\ info.kind = kind
  /\ info.mtime = IF p = <<>> THEN Now ELSE Modified(p)

(* The name of an entry, as a line of LIST and as ReadDir tells it: LIST   *)
(* cannot show the blanks at the ends of a name.                           *)
AsLISTed(name) == IF srv.dos THEN Trim(name) ELSE TrimLeft(name)
AsListed(name) == IF srv.mlsd THEN name ELSE AsLISTed(name)

(* What else the line may be of that Stat takes for p's.  With a "%" in p, *)
(* the path that arrives.  Through LIST, something with the wanted name,   *)
(* up to blanks: in the directory that is listed, which may be p itself in *)
(* spite of -d, or a file in the place of the parent.                      *)
Mistaken(q, p) ==
  /\ p # <<>> /\ q # <<>> /\ q # p
  /\ \/ q = Asked(p)
     \/ /\ Last(p) \in {Last(q), AsLISTed(Last(q))}
        /\ Front(q) \in {Asked(p), Asked(Front(p))} \/ q = Asked(Front(p))

(* What Stat returns describes the path it was given, as it was at some     *)
(* moment of the call, whichever of the commands answered and whatever      *)
(* another client changed between them; statViaLIST's comment tells how a   *)
(* directory's only entry used to be returned instead.  The name check      *)
(* keeps out every other line but those of Mistaken, although               *)
(* stat_dir_test.go:8-9 wants Stat to "not describe something inside" a     *)
(* directory.                                                               *)
StatDescribesPath ==
  (call.op = "Stat" /\ result.is = "ok") =>
    \A info \in result.infos :
      \/ \E kind \in seen \ {"none"} : Describes(info, call.path, Want, kind)
      \/ Mistaken(info.raw.of, call.path)

(* Stat says that a path is not there only if for some time it was not,     *)
(* except for a path with a "%", which the double formatting changes, and   *)
(* for a name that a listing of the parent shows without its blanks.        *)
NotFoundIsTrue ==
  (call.op = "Stat" /\ result.is = "notFound") =>
    "none" \in seen \/ Percent(call.path) \/ AsListed(Want) # Want

(* ReadDir of a directory that succeeds returns one correct FileInfo for    *)
(* each entry, and nothing for the other lines (".", "..", the total, blank *)
(* lines, cdir and pdir), in every format: the name is the entry's with     *)
(* MLSD, and with LIST as much of it as the regular expressions leave.  The *)
(* directory is the one of which the server was asked: another one if the   *)
(* path has a "%".                                                          *)
ReadDirExact ==
  (call.op = "ReadDir" /\ result.is = "ok" /\ listed.dir) =>
    /\ Cardinality(result.infos) = Cardinality(listed.entries)
    /\ \A e \in listed.entries : \E info \in result.infos :
         Describes(info, e.of, AsListed(Last(e.of)), e.kind)

(* Getwd and Mkdir return the directory's name as the server knows it, with *)
(* its quotes, with or without a comment (that has no quotes) after it.     *)
DirNameExact ==
  (call.op \in {"Getwd", "Mkdir"} /\ result.is = "ok") => result.infos = {Full(call.path)}
=============================================================================
