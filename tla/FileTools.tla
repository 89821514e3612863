------------------------------ MODULE FileTools ------------------------------
(***************************************************************************)
(* The tools that change files of the primary sandbox: file_edit,          *)
(* file_write, upload and parse, each call a sequence of remote calls with *)
(* other calls between them.                                               *)
(*                                                                         *)
(* A remote call is answered, refused before it took effect (CallFails),   *)
(* or takes effect with its answer lost.  The files are those of one       *)
(* sandbox: which sandbox a call acts on is in PrimarySandbox.  parse also  *)
(* keeps two things in Tensorlake while it runs, the uploaded document and *)
(* the parse job, and deletes them at its end.                             *)
(*                                                                         *)
(* A text is a sequence of tokens; old_string is one token or empty.       *)
(***************************************************************************)
EXTENDS Naturals, Sequences, FiniteSets, SequencesExt

CONSTANTS
    Call,          \* calls of the tools
    Path,          \* files
    Token,         \* what texts are made of
    InitialFiles,  \* the contents that the files can have at first
    Requests,      \* the requests that the calls can be
    Markdown,      \* the token that every parsed document begins with
    NoFile         \* the content of a file that does not exist

Text == Seq(Token)

EditRequest == [tool : {"file_edit"}, path : Path, old : Text, new : Text,
                replace_all : BOOLEAN]
PutRequest  == [tool : {"file_write", "upload"}, path : Path, content : Text]
\* `output' is output_path, or its default under the home directory.
ParseRequest == [tool : {"parse"}, path : Path, output : Path]

ASSUME FileToolsAssumption ==
    /\ NoFile \notin Text
    /\ InitialFiles \subseteq [Path -> Text \cup {NoFile}]
    /\ Requests \subseteq EditRequest \cup PutRequest \cup ParseRequest
    /\ \A r \in Requests \cap EditRequest : Len(r.old) <= 1

VARIABLES
    files,     \* the files of the sandbox
    request,   \* the request of a call; it never changes
    pc,        \* the next step of a call
    text,      \* what a call has read, or is about to write
    answer,    \* what a call answered
    document,  \* the document that a parse uploaded to Tensorlake
    job,       \* the parse job of a parse
    seen,      \* history: what the source of a call contained since it began
    wrote,     \* history: the calls that changed their file
    mishaps    \* history: the remote calls that went wrong, by call

remote  == <<document, job>>
history == <<seen, wrote, mishaps>>
vars    == <<files, request, pc, text, answer, document, job, seen, wrote, mishaps>>

Source(r) == r.path
Target(r) == IF r.tool = "parse" THEN r.output ELSE r.path

-----------------------------------------------------------------------------
(* strings.Count: where old occurs in a text, as the number of the tokens  *)
(* before it.  The empty string occurs in every gap.                       *)
Occurrences(t, old) ==
    IF old = <<>> THEN 0 .. Len(t) ELSE {i \in 0 .. Len(t) - 1 : t[i + 1] = old[1]}

\* Mutant: the pieces of the text are not joined.
ReplacedPieces(t, old, new, places) ==
    [i \in 1 .. Len(t) + 1 |-> IF i - 1 \in places THEN new ELSE <<>>]

(* strings.Replace: new takes the place of old at these occurrences.       *)
Replaced(t, old, new, places) ==
    LET piece(i) == (IF i \in places THEN new ELSE <<>>)
                       \o (IF i = Len(t) \/ (i \in places /\ old # <<>>) THEN <<>> ELSE <<t[i + 1]>>)
    IN  FlattenSeq([i \in 1 .. Len(t) + 1 |-> piece(i - 1)])

\* Mutant: the first of several occurrences is replaced.
FirstEdits(r, t) ==
    LET places == Occurrences(t, r.old)
    IN  IF places = {} THEN {}
        ELSE {Replaced(t, r.old, r.new, IF r.replace_all THEN places ELSE {Min(places)})}

(* FileEdit, what an edit makes of the text of an existing file: one text, *)
(* or none when old_string does not occur or is ambiguous.                 *)
Edits(r, t) ==
    LET places == Occurrences(t, r.old)
    IN  IF places = {} \/ (Cardinality(places) > 1 /\ ~ r.replace_all) THEN {}
        ELSE {Replaced(t, r.old, r.new, places)}

(* The parsed document: a text of its own for every document.              *)
Parsed(t) == <<Markdown>> \o t

(* What the tools promise, see FileStore.  An edit with an empty           *)
(* old_string writes its new_string whatever the file contains; when it    *)
(* does so is in EmptyOldStringKeepsText.                                  *)
Outcomes(r, t) ==
    CASE r.tool = "file_edit" -> (IF t = NoFile THEN {} ELSE
            {new \in {Replaced(t, r.old, r.new, Occurrences(t, r.old))} :
                /\ Occurrences(t, r.old) # {}
                /\ r.replace_all \/ \A i, j \in Occurrences(t, r.old) : i = j})
            \cup {new \in {r.new} : r.old = <<>>}
      [] r.tool \in {"file_write", "upload"} -> {r.content}
      [] r.tool = "parse" -> {Parsed(u) : u \in {t} \ {NoFile}}

-----------------------------------------------------------------------------
Init ==
    /\ files \in InitialFiles
    /\ request \in [Call -> Requests]
    /\ pc = [c \in Call |-> "new"]
    /\ text = [c \in Call |-> NoFile]
    /\ answer = [c \in Call |-> "none"]
    /\ document = [c \in Call |-> "none"]
    /\ job = [c \in Call |-> "none"]
    /\ seen = [c \in Call |-> {}]
    /\ wrote = {}
    /\ mishaps = [c \in Call |-> {}]

Goto(c, label) == pc' = [pc EXCEPT ![c] = label]

\* Call c returns.
Answer(c, result) == Goto(c, "over") /\ answer' = [answer EXCEPT ![c] = result]

Mishap(c, kind) == mishaps' = [mishaps EXCEPT ![c] = @ \cup {kind}]

(* A call begins: file_edit and parse read the file, file_write and upload *)
(* have their content.  The mkdir of file_write, whose error is dropped,   *)
(* changes no file.                                                        *)
Begin(c) ==
    LET r == request[c] IN
    /\ pc[c] = "new"
    /\ seen' = [seen EXCEPT ![c] = {files[Source(r)]}]
    /\ \/ r.tool \in {"file_edit", "parse"} /\ Goto(c, "read") /\ UNCHANGED text
       \/ /\ r.tool \in {"file_write", "upload"}
          /\ Goto(c, "write")
          /\ text' = [text EXCEPT ![c] = r.content]
    /\ UNCHANGED <<files, request, answer, remote, wrote, mishaps>>

\* Mutant: an edit without old_string does not look at the file.
EditBlindly(c) ==
    LET r == request[c]
        found == files[r.path]
    IN  /\ pc[c] = "read" /\ r.tool = "file_edit" /\ found # NoFile
        /\ \E new \in IF r.old = <<>> THEN {r.new} ELSE Edits(r, found) :
               text' = [text EXCEPT ![c] = new] /\ Goto(c, "write")
        /\ UNCHANGED <<files, request, answer, remote, history>>

(* FileEdit: the file is read, and edited or not.                          *)
EditRead(c) ==
    LET r == request[c]
        found == files[r.path]
    IN  /\ pc[c] = "read" /\ r.tool = "file_edit" /\ found # NoFile
        /\ \/ \E new \in Edits(r, found) :
                /\ text' = [text EXCEPT ![c] = new]
                /\ Goto(c, "write")
                /\ UNCHANGED answer
           \/ Edits(r, found) = {} /\ Answer(c, "refused") /\ UNCHANGED text
        /\ UNCHANGED <<files, request, remote, history>>

(* FileEdit: the read fails, because there is no such file or for any      *)
(* other reason.  Without an old_string the file is written.               *)
EditReadFails(c) ==
    LET r == request[c] IN
    /\ pc[c] = "read" /\ r.tool = "file_edit"
    /\ \/ files[r.path] = NoFile /\ UNCHANGED mishaps
       \/ files[r.path] # NoFile /\ Mishap(c, "read")
    /\ \/ /\ r.old = <<>>
          /\ text' = [text EXCEPT ![c] = r.new]
          /\ Goto(c, "write")
          /\ UNCHANGED answer
       \/ r.old # <<>> /\ Answer(c, "error") /\ UNCHANGED text
    /\ UNCHANGED <<files, request, remote, seen, wrote>>

(* Parse: the document is read.                                            *)
ParseRead(c) ==
    LET r == request[c] IN
    /\ pc[c] = "read" /\ r.tool = "parse" /\ files[r.path] # NoFile
    /\ text' = [text EXCEPT ![c] = files[r.path]]
    /\ Goto(c, "upload")
    /\ UNCHANGED <<files, request, answer, remote, history>>

(* Parse: UploadFile.  When the answer is lost, so is the id.              *)
UploadDocument(c) ==
    /\ pc[c] = "upload"
    /\ document' = [document EXCEPT ![c] = "kept"]
    /\ \/ Goto(c, "start_job") /\ UNCHANGED <<answer, mishaps>>
       \/ Answer(c, "error") /\ Mishap(c, "upload")
    /\ UNCHANGED <<files, request, text, job, seen, wrote>>

\* Mutant: the uploaded document is deleted as soon as the job has started.
StartJobThenDelete(c) ==
    /\ pc[c] = "start_job"
    /\ job' = [job EXCEPT ![c] = "running"]
    /\ document' = [document EXCEPT ![c] = "deleted"]
    /\ \/ Goto(c, "wait") /\ UNCHANGED <<answer, mishaps>>
       \/ Answer(c, "error") /\ Mishap(c, "start_job")
    /\ UNCHANGED <<files, request, text, seen, wrote>>

(* Parse: ParseDocument.                                                   *)
StartJob(c) ==
    /\ pc[c] = "start_job"
    /\ job' = [job EXCEPT ![c] = "running"]
    /\ \/ Goto(c, "wait") /\ UNCHANGED <<answer, mishaps>>
       \/ Answer(c, "error") /\ Mishap(c, "start_job")
    /\ UNCHANGED <<files, request, text, document, seen, wrote>>

(* Tensorlake ends the job of call c, which may be gone by now.            *)
JobEnds(c) ==
    /\ job[c] = "running"
    /\ job' = [job EXCEPT ![c] = "done"]
    /\ UNCHANGED <<files, request, pc, text, answer, document, history>>

\* Mutant: the job is deleted as soon as its result is there.
GetResultAndDelete(c) ==
    /\ pc[c] = "wait" /\ job[c] = "done"
    /\ text' = [text EXCEPT ![c] = Parsed(@)]
    /\ job' = [job EXCEPT ![c] = "deleted"]
    /\ Goto(c, "write")
    /\ UNCHANGED <<files, request, answer, document, history>>

(* Parse: GetParseResult, and the name of the output.                      *)
GetResult(c) ==
    /\ pc[c] = "wait" /\ job[c] = "done"
    /\ text' = [text EXCEPT ![c] = Parsed(@)]
    /\ Goto(c, "write")
    /\ UNCHANGED <<files, request, answer, remote, history>>

\* Mutant: an error of the write is dropped.
WriteUnchecked(c) ==
    LET p == Target(request[c])
        done == IF request[c].tool = "parse" THEN "delete_job" ELSE "over"
    IN  /\ pc[c] = "write"
        /\ \/ /\ files' = [files EXCEPT ![p] = text[c]]
              /\ wrote' = wrote \cup {c}
              /\ seen' = [d \in Call |-> IF pc[d] \notin {"new", "over"} /\ Source(request[d]) = p
                                         THEN seen[d] \cup {text[c]} ELSE seen[d]]
              /\ UNCHANGED mishaps
           \/ Mishap(c, "write") /\ UNCHANGED <<files, wrote, seen>>
        /\ Goto(c, done)
        /\ answer' = IF done = "over" THEN [answer EXCEPT ![c] = "ok"] ELSE answer
        /\ UNCHANGED <<request, text, remote>>

(* WriteSandboxFile of all four tools.                                     *)
Write(c) ==
    LET p == Target(request[c]) IN
    /\ pc[c] = "write"
    /\ files' = [files EXCEPT ![p] = text[c]]
    /\ wrote' = wrote \cup {c}
    /\ seen' = [d \in Call |-> IF pc[d] \notin {"new", "over"} /\ Source(request[d]) = p
                               THEN seen[d] \cup {text[c]} ELSE seen[d]]
    /\ \/ Answer(c, "error") /\ Mishap(c, "write")
       \/ request[c].tool # "parse" /\ Answer(c, "ok") /\ UNCHANGED mishaps
       \/ request[c].tool = "parse" /\ Goto(c, "delete_job") /\ UNCHANGED <<answer, mishaps>>
    /\ UNCHANGED <<request, text, remote>>

\* Mutant: when the job cannot be deleted, the document is left as well.
DeleteJobOrReturn(c) ==
    /\ pc[c] = "delete_job"
    /\ \/ /\ job' = [job EXCEPT ![c] = "deleted"]
          /\ Goto(c, "delete_document")
          /\ UNCHANGED <<answer, mishaps>>
       \/ Answer(c, "ok") /\ Mishap(c, "delete_job") /\ UNCHANGED job
    /\ UNCHANGED <<files, request, text, document, seen, wrote>>

(* Parse: DeleteParseJob, whose error is only logged.                      *)
DeleteJob(c) ==
    /\ pc[c] = "delete_job"
    /\ \/ job' = [job EXCEPT ![c] = "deleted"] /\ UNCHANGED mishaps
       \/ Mishap(c, "delete_job") /\ UNCHANGED job
    /\ Goto(c, "delete_document")
    /\ UNCHANGED <<files, request, text, answer, document, seen, wrote>>

(* Parse: DeleteFile, whose error is only logged.                          *)
DeleteDocument(c) ==
    /\ pc[c] = "delete_document"
    /\ \/ document' = [document EXCEPT ![c] = "deleted"] /\ UNCHANGED mishaps
       \/ Mishap(c, "delete_document") /\ UNCHANGED document
    /\ Answer(c, "ok")
    /\ UNCHANGED <<files, request, text, job, seen, wrote>>

(* A remote call fails without an effect, or the home directory cannot be  *)
(* resolved: the call ends with an error and leaves everything as it is.   *)
(* What a failed read does in file_edit is in EditReadFails, and the last  *)
(* calls of parse may fail without one, see DeleteJob.                     *)
CallFails(c) ==
    /\ \/ pc[c] \in {"upload", "start_job", "wait", "write"}
       \/ pc[c] = "read" /\ request[c].tool = "parse"
    /\ Answer(c, "error")
    /\ Mishap(c, pc[c])
    /\ UNCHANGED <<files, request, text, remote, seen, wrote>>

(* The instance is replaced: the call is gone, and nobody is answered.     *)
Crash(c) ==
    /\ pc[c] \notin {"new", "over"}
    /\ Answer(c, "none")
    /\ Mishap(c, "crash")
    /\ UNCHANGED <<files, request, text, remote, seen, wrote>>

Step(c) ==
    \/ Begin(c) \/ EditRead(c) \/ EditReadFails(c) \/ ParseRead(c)
    \/ UploadDocument(c) \/ StartJob(c) \/ JobEnds(c) \/ GetResult(c)
    \/ Write(c) \/ DeleteJob(c) \/ DeleteDocument(c) \/ CallFails(c)
    \/ Crash(c)

Next == \E c \in Call : Step(c)

Spec == Init /\ [][Next]_vars

-----------------------------------------------------------------------------
Written == Seq(Token \cup {Markdown}) \cup {NoFile}

Label == {"new", "read", "upload", "start_job", "wait", "write", "delete_job",
          "delete_document", "over"}

TypeOK ==
    /\ files \in [Path -> Written]
    /\ request \in [Call -> Requests]
    /\ pc \in [Call -> Label]
    /\ text \in [Call -> Written]
    /\ answer \in [Call -> {"none", "ok", "refused", "error"}]
    /\ document \in [Call -> {"none", "kept", "deleted"}]
    /\ job \in [Call -> {"none", "running", "done", "deleted"}]
    /\ seen \in [Call -> SUBSET Written]
    /\ wrote \subseteq Call
    /\ mishaps \in [Call -> SUBSET (Label \cup {"crash"})]

(* The tools keep the promise of FileStore: every call changes its file at  *)
(* most once, while it runs, to what its request makes of a content that   *)
(* the file had since the call began.  An edit that begins after another   *)
(* was answered never undoes it.                                           *)
Phase(c) ==
    CASE pc[c] \in {"new", "over"} -> pc[c]
      [] pc[c] \notin {"new", "over"} /\ c \in wrote -> "changed"
      [] pc[c] \notin {"new", "over"} /\ c \notin wrote -> "running"

Store == INSTANCE FileStore WITH phase <- [c \in Call |-> Phase(c)]

KeepsFileStorePromise == Store!Spec

(* A call that answers success has changed its file, one that refuses its  *)
(* request has not, and one that answers an error has only when the answer *)
(* of its write was lost: the client may repeat it otherwise.              *)
AnswersAreTrue ==
    \A c \in Call :
        /\ answer[c] = "ok" => c \in wrote
        /\ answer[c] = "refused" => c \notin wrote
        /\ answer[c] = "error" /\ c \in wrote => "write" \in mishaps[c]

(* u is the text t with new in every gap, before the first and after the   *)
(* last token too.                                                         *)
InEveryGap(t, new, u) ==
    LET n == Len(new) + 1
    IN  /\ Len(u) = Len(t) * n + Len(new)
        /\ \A i \in 1 .. Len(t) : u[i * n] = t[i]
        /\ \A i \in 0 .. Len(t), k \in 1 .. Len(new) : u[i * n + k] = new[k]

(* file_edit without an old_string is the documented way to create a file.  *)
(* Unless its read failed although the file was there, it writes new_string *)
(* alone only if the file was absent or empty at some moment since the call *)
(* began, and with replace_all it may also write a text that the file had  *)
(* since then, with new_string in every gap: no token of it is lost.  The  *)
(* description of file_edit promises more, `only works if the file does    *)
(* not exist', which does not hold.                                        *)
EmptyOldStringKeepsText ==
    [][\A c \in Call :
          LET r == request[c] IN
          r.tool = "file_edit" /\ r.old = <<>> /\ c \in wrote' \ wrote =>
             \/ "read" \in mishaps[c]
             \/ seen[c] \cap {NoFile, <<>>} # {} /\ text[c] = r.new
             \/ r.replace_all /\ \E t \in seen[c] \ {NoFile} :
                                    InEveryGap(t, r.new, text[c])]_vars

(* parse cleans up no earlier than it may, whichever call fails: a         *)
(* document is there as long as a job parses it, and the result of a job   *)
(* is deleted only after it was written to the sandbox; until then it can  *)
(* be fetched again.                                                       *)
NothingDeletedTooEarly ==
    \A c \in Call :
        /\ job[c] = "running" => document[c] = "kept"
        /\ job[c] = "deleted" => c \in wrote

(* A parse that answers success leaves a document or a job in Tensorlake    *)
(* only if the call that deletes that very thing failed.                   *)
LeftoversHaveACause ==
    \A c \in Call : answer[c] = "ok" =>
        /\ document[c] = "kept" => "delete_document" \in mishaps[c]
        /\ job[c] \in {"running", "done"} => "delete_job" \in mishaps[c]
=============================================================================
