---------------------------- MODULE MCFileSystem ----------------------------
(* A small instance of the file system operations for TLC. *)
EXTENDS FileSystem

MCTokens == {"a", "b", "c", "%", "'", "->", "semicolon", "blank"}

(* A plain name with one that has tokens some parser looks for, and pairs  *)
(* of names that a second formatting or a regular expression takes for     *)
(* each other.                                                             *)
MCNameSets ==
  {{<<"a">>, <<"b", "->", "'", "'", "semicolon", "c", "blank">>},
   {<<"a", "%", "%">>, <<"a", "%">>}, {<<"a">>, <<"blank", "a">>}}

MCFolders == {<<"a">>, <<"a", "%">>, <<"a", "%", "%">>}

MCKinds == << {"none", "file", "link", "dir"}, {"none", "dir"} >>

(* February, so that a file of three months ago is of last year. *)
MCNow == 12 * 24 + 1
=============================================================================
