----------------------------- MODULE MCUrlDeps ------------------------------
(* UrlDeps for TLC: one builder and one other process over six small graphs. *)
EXTENDS UrlDeps

CONSTANTS
  Make, Other,            \* the processes
  u1, u2, u3,             \* u1 serves Old, u3 New, u2 nothing at first
  Old, New,               \* two versions of one package; New has a subdir
  Part, Gone,             \* the subdir New has, one that no tree has
  Mirrors, Swapped, Versioned, Archive, Shim, Renamed, Lib, Ref, Back, \* directories on disk
  app, greet, part, lib, ref, hail, hello             \* names and aliases

Url(alias, ver, url, hash, sub) ==
  [alias |-> alias, path |-> None, ver |-> ver, url |-> url, hash |-> hash, sub |-> sub]
Path(alias, path) == [Url(alias, 10, u1, NoHash, Whole) EXCEPT !.path = path]
Package(name, ver, deps) == [name |-> name, ver |-> ver, deps |-> deps]

MCContents == [x \in Hashes |-> IF x = New THEN {Whole, Part} ELSE {Whole}]
\* 0.1.0, 0.1.1, 0.2.0 and 2.0.0
MCClass == [v \in Versions |-> v \div 10]
MCMisnamed == Names \X {30}

MCManifest == [d \in Dirs |->
  CASE d = Mirrors -> Package(app, None, <<Url(hail, 10, u2, Old, Whole), Url(hello, 10, u1, Old, Whole)>>)
    [] d = Swapped -> Package(app, None, <<Url(hello, 10, u1, Old, Whole), Url(hail, 10, u2, Old, Whole)>>)
    [] d = Versioned -> Package(app, None, <<Url(hail, 10, u1, Old, Whole), Path(lib, Lib)>>)
    [] d = Archive -> Package(app, None, <<Url(hello, 10, u3, New, Part), Url(lib, 20, u3, New, Gone),
                                           Path(ref, Back)>>)
    [] d = Shim -> Package(app, None, <<Path(ref, Ref)>>)
    [] d = Renamed -> Package(app, None, <<Url(hello, 10, u1, Old, Whole), Url(part, 10, u2, Old, Whole),
                                           Url(lib, 11, u3, New, Part)>>)
    [] d = Lib -> Package(lib, None, <<Url(hello, 11, u3, New, Whole)>>)
    [] d = Ref -> Package(greet, None, <<Url(hello, 10, u1, Old, Whole)>>)
    [] d = Back -> Package(ref, None, <<Path(hail, Archive), Url(lib, 10, u3, New, Gone),
                                        Url(hello, 30, u1, Old, Whole)>>)
    [] d = <<New, Whole>> -> Package(greet, 11, <<>>)
    [] d = <<New, Part>> -> Package(part, 11, <<>>)
    [] OTHER -> Package(greet, 10, <<>>)]

Served0 == (u1 :> Old) @@ (u2 :> NoHash) @@ (u3 :> New)
Recorded(x, us) == [k \in Hashes |-> IF k = x THEN us ELSE {}]
Cold == [entry |-> [k \in Hashes |-> "absent"], origins |-> Recorded(Old, {}), serves |-> Served0]
Warm == [Cold EXCEPT !.entry[Old] = "intact", !.origins = Recorded(Old, {u1})]
Planted == [Cold EXCEPT !.entry[Old] = "damaged"]
MCWorlds == {Warm, Planted}

MCGuests == {[url |-> u1, hash |-> Old, sub |-> Whole], [url |-> u3, hash |-> New, sub |-> Part]}
=============================================================================
