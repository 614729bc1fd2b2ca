------------------------------- MODULE Export -------------------------------
(***************************************************************************)
(* From GitHub's commit to the file of the dataset: GithubCommit composed  *)
(* with parser_parse_commit and generate_json (src/src/tree_sitter).  The  *)
(* entry a GitHub worker has accepted is parsed and written as JSON by a   *)
(* parsing worker; how it gets there is Pipeline, and what the comparison  *)
(* of the functions finds is FunctionExtraction.                           *)
(*                                                                         *)
(* yyjson is not under src/.  It adds no member for a string that is NULL, *)
(* and takes a string up to its first zero byte.  A JSON object is a       *)
(* function from the names of its members to their values.                 *)
(***************************************************************************)
EXTENDS GithubCommit

CONSTANTS Origin, \* what the entry has from the NVD
          Binary  \* the paths whose content has a zero byte

VARIABLE json \* what is written to the file

exportVars == <<vars, json>>

\* NULL is none of the things it is told from.
ASSUME ExportAssumption ==
  LET Contents == {"before", "after"} \X Paths
      Results == Contents \cup {<<"cut">> \o content : content \in Contents}
  IN  /\ NULL \notin Results /\ NULL \notin {"c", "cpp"}
      /\ NULL \notin [language : {"c", "cpp"}, before : Contents \cup {NULL},
                       after : Contents \cup {NULL}]

\* A content up to its first zero byte.
Cut(content) == <<"cut">> \o content

\* yyjson_mut_obj_add_str, for a text and for the content of a file.
Object(members) == [m \in {n \in DOMAIN members : members[n] # NULL} |-> members[m]]
String(content) ==
  IF content # NULL /\ content[2] \in Binary THEN Cut(content) ELSE content

Header ==
  Object([CWE |-> Origin.cwe_id, CVE |-> Origin.cve_id, CVE_published |-> Origin.published,
          CVE_description |-> Origin.cve_description, repository |-> Origin.repo_name,
          commit_hash |-> Origin.commit_hash, commit_message |-> doc.message])

\* A mistake the properties must catch: a header is none of the two languages.
SourceLanguage(p) == CASE Ext[p] = ".c"               -> "c"
                       [] Ext[p] \in {".cpp", ".hpp"} -> "cpp"
                       [] OTHER                       -> NULL

\* parser_set_language: the grammar of the extension; no other is expected.
Language(p) == CASE Ext[p] \in {".c", ".h"}     -> "c"
                 [] Ext[p] \in {".cpp", ".hpp"} -> "cpp"
                 [] OTHER                       -> NULL

\* parser_parse_commit: the versions whose functions are compared.
LanguageOf(f) == Language(IF f.path # NULL THEN f.path ELSE f.previous)
Parsed(f) == [language |-> LanguageOf(f), before |-> f.before, after |-> f.after]

\* A mistake the properties must catch: the two versions are exchanged.
SwappedFileObject(f) ==
  Object([status |-> f.status, path |-> f.path, previous_path |-> f.previous,
          content |-> String(f.before), previous_content |-> String(f.after),
          affected_functions |-> Parsed(f)])

FileObject(f) ==
  Object([status |-> f.status, path |-> f.path, previous_path |-> f.previous,
          content |-> String(f.after), previous_content |-> String(f.before),
          affected_functions |-> Parsed(f)])

ContextObject(f) ==
  Object([path |-> f.path, content |-> String(f.content), distances |-> f.distances])

Each(Op(_), s) == [n \in DOMAIN s |-> Op(s[n])]

\* parse_and_export_commit; the entry is destroyed.  An extension that the parser
\* does not know ends the process.
ExportEntry ==
  /\ at = "accepted"
  /\ IF \E n \in DOMAIN files : LanguageOf(files[n]) = NULL
     THEN Goto("exited") /\ UNCHANGED json
     ELSE /\ json' = [header |-> Header, commit_files |-> Each(FileObject, files),
                      context_files |-> Each(ContextObject, context)]
          /\ files' = <<>> /\ context' = <<>>
          /\ at' = "exported"
          /\ UNCHANGED <<i, listed>>
  /\ Silent

Ended == at \in {"exported", "rejected", "exited"} /\ UNCHANGED exportVars

Next ==
  \/ Process /\ UNCHANGED json
  \/ ExportEntry
  \/ Ended

ExportInit == Init /\ json = NULL

Spec == ExportInit /\ [][Next]_exportVars

-----------------------------------------------------------------------------

\* The members README.md promises for a file of the commit, from what GitHub has:
\* the version of the parent commit under the path it had there, the version of
\* the commit under its new path, no version before for an added file, none after
\* for a removed one.
Member(object, name, value) ==
  IF value = NULL THEN name \notin DOMAIN object
                  ELSE name \in DOMAIN object /\ object[name] = value

Old(f) == CASE f.status = "added" -> NULL
            [] f.status = "renamed" -> f.previous
            [] OTHER -> f.filename
New(f) == IF f.status = "removed" THEN NULL ELSE f.filename

Version(revision, path) ==
  IF path = NULL THEN NULL
  ELSE IF path \in Binary THEN Cut(Content(revision, path))
  ELSE Content(revision, path)

\* The file of an exported commit is whole, although any of the downloads may
\* fail: every file that GitHub lists of the commit is there, with its paths and
\* the content these have in the right revision, and so is the content of the
\* context.  As far as GitHub's answers are whole these are all files of the
\* commit, no more than allowed, and all supported.  Of a content with a zero
\* byte only what precedes it is there.  Both versions of a file are parsed with
\* the grammar they need.
ExportedIsWhole ==
  at = "exported" =>
    /\ WholeAnswers => /\ Supportable
                       /\ Len(doc.files) \in 1 .. config.maxCommit
                       /\ Len(json.commit_files) = Len(doc.files)
    /\ Len(json.commit_files) = Len(Listed)
    /\ \A n \in DOMAIN json.commit_files :
         LET object == json.commit_files[n]
             f == doc.files[n]
         IN  /\ Member(object, "path", New(f))
             /\ Member(object, "previous_path", Old(f))
             /\ Member(object, "content", Version("after", New(f)))
             /\ Member(object, "previous_content", Version("before", Old(f)))
             /\ \A p \in {Old(f), New(f)} \ {NULL} :
                  object.affected_functions.language = Language(p)
    /\ \A n \in DOMAIN json.context_files :
         LET object == json.context_files[n]
         IN  Member(object, "content", Version("after", object.path))
    /\ Member(json.header, "CVE_description", Origin.cve_description)

-----------------------------------------------------------------------------
(* The invariant that ExportProofs shows to be inductive.                  *)

Before == {"probe commit", "parse commit"}
Over == {"rejected", "exited", "exported"}

\* The n-th file, or context file, has the content it is to have.
AfterFetched(n) == at \in {"context", "accepted"} \/ (at \in {"before", "after"} /\ n < i)
BeforeFetched(n) == AfterFetched(n) \/ (at = "after" /\ n = i)
ContextFetched(n) == at = "accepted" \/ (at = "context" /\ n < i)

Fetched(has, revision, path) ==
  IF has /\ path # NULL THEN Content(revision, path) ELSE NULL

\* The files of the entry are those of the commit, with what is downloaded of them.
FilesSoFar ==
  /\ at \in Before \cup {"rejected", "exported"} => files = <<>>
  /\ at \notin Before \cup Over =>
       /\ HasParent /\ Offending = {}
       /\ Len(files) = Len(Listed)
       /\ \A n \in DOMAIN files :
            LET f == doc.files[n] IN
            files[n] = [status |-> f.status, path |-> New(f), previous |-> Old(f),
                        before |-> Fetched(BeforeFetched(n), "before", Old(f)),
                        after |-> Fetched(AfterFetched(n), "after", New(f))]
       /\ at # "count files" => Len(files) \in 1 .. config.maxCommit

\* A context file is one of the tree's that has been looked at, not one of the
\* commit's, and only once in the context.
ContextSoFar ==
  /\ at \in Before \cup {"count files", "probe context", "rejected", "exported"} =>
       context = <<>>
  /\ at \in Before \cup {"count files", "probe context"} => i = 1
  /\ context \in Seq(ToSet(context))
  /\ \A n \in DOMAIN context : context[n].path \in Paths
  /\ at \notin Over =>
       /\ \A n \in DOMAIN context :
            LET p == context[n].path IN
            /\ context[n] = [path |-> p, content |-> Fetched(ContextFetched(n), "after", p),
                             distances |-> context[n].distances]
            /\ \A k \in DOMAIN files : files[k].path # p
            /\ \E k \in DOMAIN tree : tree[k].path = p /\ (at = "add context" => k < i)
       /\ \A n, k \in DOMAIN context : context[n].path = context[k].path => n = k

Requests ==
  [what : {"commit", "tree", "content"}, revision : {"before", "after"},
   path : Paths \cup {NULL}]

\* The requests that have been answered.
Answered ==
  {r \in Requests :
     \/ r = Request("commit", "after", NULL) /\ at # "probe commit"
     \/ /\ r = Request("tree", "after", NULL)
        /\ at \notin Before \cup {"count files", "probe context"}
     \/ \E k \in DOMAIN files :
          \/ BeforeFetched(k) /\ r = Request("content", "before", files[k].previous)
          \/ AfterFetched(k) /\ r = Request("content", "after", files[k].path)
     \/ \E k \in DOMAIN context :
          ContextFetched(k) /\ r = Request("content", "after", context[k].path)}

RequestsSoFar ==
  /\ requests \in Seq(Requests)
  /\ NothingAskedTwice
  /\ at \notin Over => ToSet(requests) \subseteq Answered

ExportInv ==
  /\ TypeOK /\ FilesSoFar /\ ContextSoFar /\ RequestsSoFar
  /\ ExportedIsWhole /\ ExitedForAReason

\* What GitHub lists of the paths the commit leaves in the tree, and whether a file
\* of the tree is one of those around them.
ListedPaths == {New(f) : f \in ToSet(Listed)} \ {NULL}
IsAround(f) ==
  f.type = "blob" /\ f.path \notin ListedPaths /\ \E p \in ListedPaths : Surrounds(f.path, p)

NoContextYet == Before \cup Over \cup {"count files", "probe context"}

\* The context has what is around the listed paths in the part of the tree that has
\* been looked at, each with its distances to these.
ContextKnown ==
  at \notin NoContextYet =>
    /\ {context[n].path : n \in DOMAIN context} =
         {tree[k].path : k \in {m \in 1 .. listed :
                                  (at = "add context" => m < i) /\ IsAround(tree[m])}}
    /\ \A n \in DOMAIN context :
         context[n].distances =
           {[path |-> p, distance |-> Distance(p, context[n].path)] :
              p \in {q \in ListedPaths : Surrounds(context[n].path, q)}}

\* Who goes on has been within the limits.
LimitsKept ==
  /\ at \notin Before \cup Over \cup {"count files"} => Len(files) <= config.maxTotal
  /\ at \in {"before", "after", "context", "accepted"} =>
       Len(context) <= config.maxContext /\ TotalFiles <= config.maxTotal

ContextInv ==
  /\ ContextKnown /\ LimitsKept
  /\ RejectedForAReason /\ ContentAskedLast
=============================================================================
