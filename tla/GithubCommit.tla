---------------------------- MODULE GithubCommit ----------------------------
(***************************************************************************)
(* What a GitHub worker does with one commit: github_process_commit of     *)
(* src/src/github/github.c with src/src/github/github_parser.c.  It asks   *)
(* for the commit, rejects it or collects its files, asks for the tree of  *)
(* the repository, collects the files around the affected ones, and then   *)
(* downloads the content of every file, one request after the other.       *)
(*                                                                         *)
(* GitHub is not under src/.  It answers a request or it does not (a       *)
(* download that returns NULL); a revision never changes.  It lists no     *)
(* more than a page of a commit's files, and may truncate a tree.  A       *)
(* document that lacks a member the parser wants ends the process, a       *)
(* behaviour that stops; so does a file status the parser does not know,   *)
(* which is a step.                                                        *)
(*                                                                         *)
(* A path is the sequence of its names, the last one being the file's.     *)
(***************************************************************************)
EXTENDS Integers, Sequences, SequencesExt, FiniteSetsExt

CONSTANTS NULL,
          Paths,     \* the paths of the repository
          Ext,       \* Ext[p]: the extension strrchr finds in p, or NULL
          Documents, \* the commits: their parents, files and message
          FilesPage, \* how many files of a commit GitHub lists
          Trees,     \* Trees[d]: what GitHub may have as the tree at the commit d
          TreeLimits, \* the numbers of entries GitHub may limit a tree to
          Configs,   \* the configurations the program may run with
          MaxDepth   \* the largest context depth there is

\* A change of a commit is told by the path it leaves and the path it comes from.
\* A commit changes no path twice, what it renames is gone from its old path and
\* has one new path, and a tree has every path once.
ASSUME GithubAssumption ==
  /\ NULL \notin Paths /\ NULL \notin {"before", "after"} \X Paths
  /\ NULL \notin {".c", ".h", ".cpp", ".hpp"}
  /\ \A p \in Paths : p \in Seq(ToSet(p)) \ {<<>>}
  /\ FilesPage \in Nat \ {0} /\ TreeLimits \subseteq Nat
  /\ MaxDepth \in Nat /\ \A c \in Configs : c.depth \in 0 .. MaxDepth
  /\ \A c \in Configs : \A limit \in {c.maxCommit, c.maxContext, c.maxTotal} : limit \in Nat
  /\ \A d \in Documents :
       /\ d.files \in Seq([status : STRING, filename : Paths, previous : Paths \cup {NULL}])
       /\ \A n \in DOMAIN d.files :
            d.files[n].status = "renamed" => d.files[n].previous \in Paths
       /\ \A n, k \in DOMAIN d.files : n # k =>
            /\ d.files[n].filename # d.files[k].filename
            /\ d.files[n].status = "renamed" => d.files[n].previous # d.files[k].filename
            /\ d.files[n].status = "renamed" /\ d.files[k].status = "renamed" =>
                 d.files[n].previous # d.files[k].previous
  /\ \A d \in Documents : \A t \in Trees[d] :
       /\ Len(t) \in Nat /\ DOMAIN t = 1 .. Len(t)
       /\ \A n \in DOMAIN t : t[n].type = "blob" => t[n].path \in Paths
       /\ \A n, k \in DOMAIN t : t[n].path = t[k].path => n = k

VARIABLES
  config,   \* the limits, the context depth and the supported extensions
  doc,      \* the commit
  tree,     \* its tree, in GitHub's order
  at,       \* where the worker is
  files,    \* entry->files
  context,  \* entry->context_files
  i,        \* the entry of the tree that is looked at, or the file, or context
            \* file, whose content is downloaded
  listed,   \* how many entries of the tree the answer lists
  requests, \* history: what GitHub was asked for, in order
  refused   \* history: a request was not answered

given == <<config, doc, tree>>
entry == <<files, context>>
vars == <<given, at, entry, i, listed, requests, refused>>

\* The statuses github_parse_commit_files knows.
Statuses == {"modified", "added", "removed", "renamed"}

Init ==
  /\ config \in Configs
  /\ doc \in Documents
  /\ tree \in Trees[doc]
  /\ at = "probe commit"
  /\ files = <<>> /\ context = <<>> /\ i = 1
  /\ listed = Len(tree)
  /\ requests = <<>> /\ refused = FALSE

\* What GitHub's answer lists of the commit's files.
Listed == SubSeq(doc.files, 1, Min({FilesPage, Len(doc.files)}))

Goto(place) == at' = place /\ UNCHANGED <<entry, i, listed>>

\* Every early return destroys the entry and what it has collected.
Reject ==
  /\ at' = "rejected"
  /\ files' = <<>> /\ context' = <<>>
  /\ UNCHANGED <<i, listed>>

\* Nothing is asked for.
Silent == UNCHANGED <<given, requests, refused>>

\* A request: what is asked for, and, for a file, of which revision and path.
Request(what, revision, path) == [what |-> what, revision |-> revision, path |-> path]

\* GitHub answers the request and the worker goes on, or the commit is rejected.
Ask(request, GoOn) ==
  /\ requests' = Append(requests, request)
  /\ \/ GoOn /\ UNCHANGED refused
     \/ Reject /\ refused' = TRUE
  /\ UNCHANGED given

-----------------------------------------------------------------------------
(* The commit.                                                             *)

ProbeCommit ==
  /\ at = "probe commit"
  /\ Ask(Request("commit", "after", NULL), Goto("parse commit"))

\* extension_is_supported.
Supported(p) ==
  \/ config.c /\ Ext[p] \in {".c", ".h"}
  \/ config.cpp /\ Ext[p] \in {".cpp", ".hpp"}

\* github_parse_commit_files returns false at a file it does not accept.
Accepts(f) ==
  /\ Supported(f.filename)
  /\ f.status = "renamed" =>
       Ext[f.previous] # NULL /\ Ext[f.previous] = Ext[f.filename]

\* add_new_file.
NewFile(f) ==
  [status   |-> f.status,
   path     |-> IF f.status = "removed" THEN NULL ELSE f.filename,
   previous |-> CASE f.status = "added" -> NULL
                  [] f.status = "renamed" -> f.previous
                  [] OTHER -> f.filename,
   before |-> NULL, after |-> NULL]

\* The first file that stops the loop over the document's files, if any.
Offending ==
  {n \in DOMAIN Listed : Listed[n].status \notin Statuses \/ ~Accepts(Listed[n])}

UnknownStatus == Offending # {} /\ Listed[Min(Offending)].status \notin Statuses

\* github_parse_commit_infos: only a commit with one parent has a parent hash.
HasParent == doc.parents = 1

ParseCommit ==
  /\ at = "parse commit"
  /\ \/ /\ HasParent /\ Offending = {}
        /\ files' = [n \in DOMAIN Listed |-> NewFile(Listed[n])]
        /\ at' = "count files"
        /\ UNCHANGED <<context, i, listed>>
     \/ /\ ~HasParent \/ (Offending # {} /\ ~UnknownStatus)
        /\ Reject
  /\ Silent

\* EXIT_IF on the status of a file.
Exit ==
  /\ at = "parse commit"
  /\ HasParent /\ UnknownStatus
  /\ Goto("exited")
  /\ Silent

\* A mistake the properties must catch: a limit is not to be reached.
Reaches(n, limit) == n >= limit

Exceeds(n, limit) == n > limit

CountFiles ==
  /\ at = "count files"
  /\ IF \/ files = <<>>
        \/ Exceeds(Len(files), config.maxCommit)
        \/ Exceeds(Len(files), config.maxTotal)
     THEN Reject
     ELSE Goto(IF config.depth > 0 THEN "probe context" ELSE "count context")
  /\ Silent

-----------------------------------------------------------------------------
(* The context.                                                            *)

\* A mistake the properties must catch: only one path's directories count.
OneSidedDistance(p, q) ==
  IF p = q THEN 0
  ELSE LET common == LongestCommonPrefix({Front(p), Front(q)})
       IN  Len(Front(q)) - Len(common) + 1

\* context_distance: the slashes of both paths after their common directory,
\* and one.
Distance(p, q) ==
  IF p = q THEN 0
  ELSE LET common == LongestCommonPrefix({Front(p), Front(q)})
       IN  (Len(Front(p)) - Len(common)) + (Len(Front(q)) - Len(common)) + 1

\* The affected files a path is near to.
Near(p) ==
  {f \in ToSet(files) : f.path # NULL /\ Distance(f.path, p) <= config.depth}

\* add_and_get_new_context_file, and one add_new_context_distance for each; in
\* which order these are does not matter.
NewDistance(p, f) == [path |-> f.path, distance |-> Distance(f.path, p)]
NewContextFile(p) ==
  [path |-> p, content |-> NULL, distances |-> {NewDistance(p, f) : f \in Near(p)}]

\* A mistake the properties must catch: the files of the commit are forgotten.
NoneInCommit(p) == FALSE

AlreadyInCommit(p) == \E n \in DOMAIN files : files[n].path = p

\* The entries of the tree that become context files.
IsContext(f) == f.type = "blob" /\ ~AlreadyInCommit(f.path) /\ Near(f.path) # {}

\* The answer lists the tree or a part of it; the member "truncated" is not
\* looked at.
ProbeContext ==
  /\ at = "probe context"
  /\ Ask(Request("tree", "after", NULL),
         /\ listed' \in {Min({limit, Len(tree)}) : limit \in TreeLimits}
         /\ at' = "add context"
         /\ UNCHANGED <<entry, i>>)

\* github_parse_context_files: one entry of the tree.
AddContextFile ==
  /\ at = "add context"
  /\ i <= listed
  /\ context' = IF IsContext(tree[i]) THEN Append(context, NewContextFile(tree[i].path))
                ELSE context
  /\ i' = i + 1
  /\ UNCHANGED <<at, files, listed>>
  /\ Silent

ContextAdded ==
  /\ at = "add context"
  /\ i > listed
  /\ Goto("count context")
  /\ Silent

\* A mistake the properties must catch: the sum is not limited.
ContextAlone == Len(context)

TotalFiles == Len(files) + Len(context)

CountContext ==
  /\ at = "count context"
  /\ IF \/ Exceeds(Len(context), config.maxContext)
        \/ Exceeds(Len(context), config.maxTotal)
        \/ Exceeds(TotalFiles, config.maxTotal)
     THEN Reject
     ELSE at' = "before" /\ i' = 1 /\ UNCHANGED <<entry, listed>>
  /\ Silent

-----------------------------------------------------------------------------
(* github_process_files: the content, file by file.                        *)

Content(revision, path) == <<revision, path>>

\* github_download_file, into the member of the entry that Store assigns.
Download(revision, path, Store) ==
  Ask(Request("content", revision, path), Store /\ UNCHANGED listed)

\* The version before the commit, if there was one.
DownloadBefore ==
  /\ at = "before"
  /\ i <= Len(files)
  /\ LET p == files[i].previous IN
       IF p = NULL
       THEN Goto("after") /\ Silent
       ELSE Download("before", p, /\ files' = [files EXCEPT ![i].before = Content("before", p)]
                                  /\ at' = "after"
                                  /\ UNCHANGED <<context, i>>)

\* The version after the commit, if there is one.
DownloadAfter ==
  /\ at = "after"
  /\ LET p == files[i].path IN
       IF p = NULL
       THEN at' = "before" /\ i' = i + 1 /\ UNCHANGED <<entry, listed>> /\ Silent
       ELSE Download("after", p, /\ files' = [files EXCEPT ![i].after = Content("after", p)]
                                 /\ at' = "before" /\ i' = i + 1
                                 /\ UNCHANGED context)

\* A mistake the properties must catch: the second loop goes on where the first
\* one stopped.
Onwards == i

FromTheStart == 1

FilesDownloaded ==
  /\ at = "before"
  /\ i > Len(files)
  /\ at' = "context" /\ i' = FromTheStart
  /\ UNCHANGED <<entry, listed>>
  /\ Silent

DownloadContext ==
  /\ at = "context"
  /\ i <= Len(context)
  /\ LET p == context[i].path IN
       Download("after", p, /\ context' = [context EXCEPT ![i].content = Content("after", p)]
                            /\ i' = i + 1
                            /\ UNCHANGED <<at, files>>)

\* The entry is pushed to the parsing queue.
Accept ==
  /\ at = "context"
  /\ i > Len(context)
  /\ Goto("accepted")
  /\ Silent

-----------------------------------------------------------------------------

Process ==
  \/ ProbeCommit \/ ParseCommit \/ Exit \/ CountFiles
  \/ ProbeContext \/ AddContextFile \/ ContextAdded \/ CountContext
  \/ DownloadBefore \/ DownloadAfter \/ FilesDownloaded \/ DownloadContext
  \/ Accept

-----------------------------------------------------------------------------
(* What src/README.md says of a commit.                                    *)

\* The directories of the repository, the root <<>> included.
Directories == UNION {Prefixes(Front(p)) : p \in Paths}

Neighbours(dirs) ==
  {e \in Directories : \E d \in dirs : \/ d # <<>> /\ e = Front(d)
                                       \/ e # <<>> /\ d = Front(e)}

\* Around[p][n]: the directories within n steps to a parent or to a child from
\* the directory of p.
Around ==
  [p \in Paths |->
     LET within[n \in 0 .. MaxDepth] ==
           IF n = 0 THEN {Front(p)}
           ELSE within[n - 1] \cup Neighbours(within[n - 1])
     IN  within]

\* "1: same directory, 2: direct parent/child directory level, 3: direct
\* parent/child directory of each directory included in context depth 2, larger
\* values: progressively farther".
Surrounds(q, p) ==
  config.depth > 0 /\ Front(q) \in Around[p][config.depth - 1]

\* The paths the commit leaves in the tree.
After(d) == {f.filename : f \in {g \in ToSet(d.files) : g.status # "removed"}}
Affected == After(doc)

Surroundings ==
  {f.path : f \in {g \in ToSet(tree) :
     /\ g.type = "blob"
     /\ g.path \notin Affected
     /\ \E p \in Affected : Surrounds(g.path, p)}}

WithinLimits ==
  /\ Len(doc.files) \in 1 .. config.maxCommit
  /\ Cardinality(Surroundings) <= config.maxContext
  /\ Len(doc.files) + Cardinality(Surroundings) <= config.maxTotal

\* One parent and supported files only.
Supportable ==
  /\ doc.parents = 1
  /\ \A f \in ToSet(doc.files) :
       /\ Supported(f.filename)
       /\ f.status = "renamed" => Ext[f.previous] = Ext[f.filename]

Acceptable == Supportable /\ WithinLimits

Truncated == listed < Len(tree)

\* The answers the limits can be trusted with: the tree is not truncated, and a
\* commit that GitHub lists a part of has more files than it may have anyway.
WholeAnswers ==
  /\ ~Truncated
  /\ Len(doc.files) <= FilesPage \/ config.maxCommit < FilesPage

-----------------------------------------------------------------------------
(* Properties.                                                             *)

FileStates ==
  [status : Statuses, path : Paths \cup {NULL}, previous : Paths \cup {NULL},
   before : ({"before"} \X Paths) \cup {NULL},
   after : ({"after"} \X Paths) \cup {NULL}]

\* Where the worker is, and what the entry and its position in it hold.
TypeOK ==
  /\ config \in Configs /\ doc \in Documents /\ tree \in Trees[doc]
  /\ at \in {"probe commit", "parse commit", "count files", "probe context", "add context",
            "count context", "before", "after", "context", "accepted", "rejected",
            "exited", "exported"}
  /\ files \in Seq(FileStates)
  /\ \A n \in DOMAIN context :
       /\ context[n].path \in Paths
       /\ context[n].content \in ({"after"} \X Paths) \cup {NULL}
  /\ listed \in 0 .. Len(tree)
  /\ at = "add context" => i \in 1 .. listed + 1
  /\ at = "before" => i \in 1 .. Len(files) + 1
  /\ at = "after" => i \in 1 .. Len(files)
  /\ at = "context" => i \in 1 .. Len(context) + 1
  /\ refused \in BOOLEAN

\* The slash-counting distance selects exactly the files in the directories
\* within context-depth - 1 steps of an affected file, each once and none of the
\* affected ones, and lists for each exactly the affected files it surrounds; of
\* a truncated tree it selects no others.
ContextIsSurroundings ==
  at \in {"before", "after", "context", "accepted"} /\ Len(doc.files) <= FilesPage =>
    /\ {context[n].path : n \in DOMAIN context} \subseteq Surroundings
    /\ Truncated \/ Len(context) = Cardinality(Surroundings)
    /\ \A n, k \in DOMAIN context : context[n].path = context[k].path => n = k
    /\ \A n \in DOMAIN context :
         LET distances == context[n].distances IN
         /\ {d.path : d \in distances} = {p \in Affected : Surrounds(context[n].path, p)}
         /\ \A d \in distances :
              /\ Front(context[n].path) \in Around[d.path][d.distance - 1]
              /\ d.distance > 1 =>
                   Front(context[n].path) \notin Around[d.path][d.distance - 2]

\* A commit is rejected for a reason: it is not one to accept, or a request for
\* it was not answered, or it has so many files that GitHub lists a part of them
\* only, and the others may have filled its context.
RejectedForAReason ==
  at = "rejected" =>
    ~Acceptable \/ refused \/ (Len(doc.files) > FilesPage /\ config.depth > 0)

\* Only a status that github_parser.c does not know ends the process, and never
\* an extension that the configuration lets through: the parsing worker has a
\* grammar for whatever a GitHub worker accepts.
ExitedForAReason ==
  at = "exited" => \E f \in ToSet(doc.files) : f.status \notin Statuses

\* Content is the last and the dearest thing to ask for.  None is asked for
\* before it is known that the commit is acceptable ("rejected before downloading
\* the content of the files", "discarded before downloading the actual content
\* of the context files") as far as GitHub's answers are whole.
ContentAskedLast ==
  \A n \in DOMAIN requests :
    requests[n].what = "content" /\ WholeAnswers => Acceptable

\* No request is sent twice, whether for an affected file, for the version of it
\* before the commit or for a file of the context, and none after one that was
\* not answered.
NothingAskedTwice ==
  /\ \A n, k \in DOMAIN requests : requests[n] = requests[k] => n = k
  /\ refused => at = "rejected"
=============================================================================
