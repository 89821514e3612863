---------------------------- MODULE MCFileTools ----------------------------
(* FileTools, UploadSource and Excerpts for TLC.  They share no variable,  *)
(* so a behaviour exercises one of them, and the other two stay at one     *)
(* initial state.                                                          *)
EXTENDS FileTools, UploadSource, Excerpts, TLC

CONSTANTS f, g, x, y, line

VARIABLE part

Edit(old, new, all) == [tool |-> "file_edit", path |-> f, old |-> old, new |-> new,
                        replace_all |-> all]

(* Edits of f with no, one and every occurrence, the creation of f, two     *)
(* ways to put a new f, and parses of f and of g with the same output.      *)
MCRequests == {Edit(<<x>>, <<y>>, FALSE), Edit(<<x>>, <<x, y>>, TRUE),
               Edit(<<>>, <<x>>, FALSE), Edit(<<>>, <<y>>, TRUE),
               [tool |-> "file_write", path |-> f, content |-> <<x, x>>],
               [tool |-> "upload", path |-> f, content |-> <<y>>],
               [tool |-> "parse", path |-> f, output |-> g],
               [tool |-> "parse", path |-> g, output |-> g]}

MCInitialFiles == {[p \in Path |-> IF p = f THEN t ELSE NoFile] :
                     t \in {NoFile, <<>>, <<x, x>>}}

\* The length of a format's signature; Office documents are apart.
Signature == [pdf |-> 4, png |-> 8, jpeg |-> 2, gif |-> 6, xml |-> 5, html |-> 14, json |-> 1,
              text |-> 1, binary |-> 1]

(* Every format with nothing, less than its signature, exactly that, and   *)
(* more than a Read asks for.                                              *)
MCBodies ==
    {[format |-> k, size |-> n, told |-> Signature[k]] :
        k \in DOMAIN Signature, n \in {0, 3, 4, 5, 8, 14, 600}}
    \cup {[format |-> "office", size |-> n, told |-> t] : n \in {40, 600}, t \in {35, 520}}

MCMediaExt == [m \in MediaTypes |-> IF m = "application/pdf" THEN ".pdf" ELSE ""]

MCPayloads == [alphabet : {"either", "standard", "url", "mixed"}, digits : 0 .. 8,
               padding : 0 .. 3]

\* Around zero, around the sizes of the texts, and at the ends of an int of five bits.
MCAsked == {-16, -1, 0, 1, 2, 3, 14, 15}

FilesAtRest    == request = [c \in Call |-> CHOOSE r \in Requests : TRUE]
                    /\ files = [p \in Path |-> NoFile]
UploadAtRest   == source = [scheme |-> "file", body |-> CHOOSE b \in Bodies : TRUE]
ExcerptsAtRest == lines = <<Empty>>

MCInit ==
    /\ \/ part = "files" /\ UploadAtRest /\ ExcerptsAtRest
       \/ part = "upload" /\ FilesAtRest /\ ExcerptsAtRest
       \/ part = "excerpts" /\ FilesAtRest /\ UploadAtRest
    /\ Init /\ UploadInit /\ ExcerptsInit

MCNext ==
    \/ part = "files" /\ Next /\ UNCHANGED <<part, uploadVars, excerptsVars>>
    \/ part = "upload" /\ UploadNext /\ UNCHANGED <<part, vars, excerptsVars>>
    \/ part = "excerpts" /\ ExcerptsNext /\ UNCHANGED <<part, vars, uploadVars>>

MCSpec == MCInit /\ [][MCNext]_<<part, vars, uploadVars, excerptsVars>>

Symmetry == Permutations(Call)
=============================================================================
