---------------------------- MODULE MCLspServer -----------------------------
(* LspServerClient for TLC.  Untitled is a standalone buffer, Main and Lib
   are files of one project. *)
EXTENDS LspServerClient

CONSTANTS Untitled, Main, Lib

(* One client edits, closes, asks and cancels in all three documents; another
   saves the project's files and its manifest; the last one does what it likes
   to the life cycle of the server. *)
EditorProfile ==
  [uris |-> {Untitled, Main, Lib}, classes |-> {"TextOnly", "Analysed"},
   kinds |-> {"sync", "didClose", "request", "cancel"}]

ProjectProfile ==
  [uris |-> {Main, Lib}, classes |-> {},
   kinds |-> {"sync", "didClose", "didSave"}]

LifecycleProfile ==
  [uris |-> {Untitled}, classes |-> {"Analysed", "Inert"},
   kinds |-> {"sync", "request", "initialize", "initialized", "shutdown",
              "exit", "malformed", "fatal", "eof"}]

MCProfiles == {EditorProfile, ProjectProfile, LifecycleProfile}
=============================================================================
