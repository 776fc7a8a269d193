----------------------------- MODULE OssClient -----------------------------
(***************************************************************************)
(* oss_client/oss_client.cpp: a client that splits a path into a bucket    *)
(* and a prefix, lists a folder page by page, creates a directory (an      *)
(* empty object) unless it is there, and uploads.  Others put and delete   *)
(* objects meanwhile; a request may fail, before the service has carried   *)
(* it out or after.  A path is a sequence of tokens, all but the two       *)
(* separators alike.  What is listed has a rank, which is its order.       *)
(***************************************************************************)
EXTENDS Integers, SequencesExt

CONSTANTS
    Paths,              \* the paths of the calls
    Files, SubFolders,  \* ranks of objects and of common prefixes
    PageSize,           \* setMaxKeys(): 100
    MaxChanges          \* bound: puts and deletes of others

Ranks == Files \cup SubFolders

ASSUME OssAssumption ==
    /\ Ranks \subseteq Nat \ {0} /\ Files \cap SubFolders = {}
    /\ PageSize \in Nat \ {0} /\ MaxChanges \in Nat

VARIABLES
    call, step,         \* the last call, and where it is
    returned,           \* what the last call returned
    target,             \* what the split path names: what is meant, or not
    object,             \* the object that is meant: what it holds
    listable,           \* what is in the folder
    marker,             \* of the next page
    sub_file_list,      \* what was listed
    throughout, ever,   \* ghosts: in the folder all along, at any time
    keptBack,           \* ghost: the HEAD was not answered, or is outdated
    changes

ossVars == <<call, step, returned, target, object, listable, marker, sub_file_list,
             throughout, ever, keptBack, changes>>

OssTypeOK ==
    /\ call \in {"none", "list", "create", "upload"} /\ step \in {"idle", "page", "head", "put"}
    /\ returned \in {"none", "true", "false"}
    /\ target \in {"none", "meant", "another"}
    /\ object \in {"absent", "empty", "content"}
    /\ listable \subseteq Ranks /\ marker \in Ranks \cup {0}
    /\ sub_file_list \in Seq(Ranks)
    /\ throughout \subseteq ever /\ ever \subseteq Ranks
    /\ keptBack \in BOOLEAN /\ changes \in 0 .. MaxChanges

OssInit ==
    /\ call = "none" /\ step = "idle" /\ returned = "none" /\ target = "none"
    /\ object = "absent" /\ listable = {}
    /\ marker = 0 /\ sub_file_list = <<>>
    /\ throughout = {} /\ ever = {} /\ keptBack = FALSE /\ changes = 0

-----------------------------------------------------------------------------
(* oss_split_path().                                                       *)

IsSeparator(token) == token \in {"/", "\\"}
IsOther(token) == ~ IsSeparator(token)

\* The rest of the text from token n on.
Rest(text, n) == IF n = 0 THEN <<>> ELSE SubSeq(text, n, Len(text))

\* From its first separator on, and from its first other token on.
FromSeparator(text) == Rest(text, SelectInSeq(text, IsSeparator))
FromOther(text) == Rest(text, SelectInSeq(text, IsOther))

Bucket(path) ==
    LET text == FromOther(path) IN
    SubSeq(text, 1, Len(text) - Len(FromSeparator(text)))

\* Defect: only slashes are folded.
PutTokenAsIs(prefix, token) ==
    IF token = "/" /\ prefix # <<>> /\ Last(prefix) = "/" THEN prefix ELSE Append(prefix, token)

PutToken(prefix, token) ==
    IF IsOther(token) THEN Append(prefix, token)
    ELSE IF prefix # <<>> /\ Last(prefix) = "/" THEN prefix ELSE Append(prefix, "/")

Prefix(path) ==
    FoldLeft(LAMBDA prefix, token : PutToken(prefix, token), <<>>,
             FromOther(FromSeparator(FromOther(path))))

\* The call goes on if there is both a bucket and a prefix.
Splits(path) == Bucket(path) # <<>> /\ Prefix(path) # <<>>

\* What a path means: its words; the first is the bucket, and the others, with
\* a slash between any two and one at the end if the path ends so, the prefix.
WordsOf(path) ==
    LET starts == {n \in DOMAIN path : IsOther(path[n]) /\ (n = 1 \/ IsSeparator(path[n - 1]))}
        End(n) == CHOOSE m \in n .. Len(path) :
                     /\ \A l \in n .. m : IsOther(path[l])
                     /\ m = Len(path) \/ IsSeparator(path[m + 1])
        order == SetToSortSeq(starts, <)
    IN [w \in DOMAIN order |-> SubSeq(path, order[w], End(order[w]))]

Meant(path) ==
    LET words == WordsOf(path)
        more == SubSeq(words, 2, Len(words))
        Joined(prefix, word) == prefix \o <<"/">> \o word
    IN <<Head(words), FoldLeft(Joined, Head(more), Tail(more))
                       \o IF IsSeparator(Last(path)) THEN <<"/">> ELSE <<>> >>

-----------------------------------------------------------------------------
(* The calls.                                                              *)

\* What a path names: what it means, another object, or "none": it is refused.
Target(path) ==
    CASE Splits(path) ->
            IF Len(WordsOf(path)) >= 2 /\ Meant(path) = <<Bucket(path), Prefix(path)>>
            THEN "meant" ELSE "another"
      [] ~ Splits(path) -> IF Len(WordsOf(path)) >= 2 THEN "another" ELSE "none"

Targets == {Target(path) : path \in Paths}

Return(answer) == step' = "idle" /\ returned' = answer

Begin(name, first) ==
    /\ step = "idle"
    /\ call' = name
    /\ target' \in Targets
    /\ IF target' = "none" THEN Return("false") ELSE step' = first /\ returned' = "none"
    /\ marker' = 0 /\ sub_file_list' = <<>>
    /\ throughout' = listable /\ ever' = listable
    /\ keptBack' = FALSE
    /\ UNCHANGED <<object, listable, changes>>

Call == Begin("list", "page") \/ Begin("create", "head") \/ Begin("upload", "put")

\* ListObjects(): the first PageSize after the marker.
Page ==
    {r \in listable : r > marker /\ Cardinality({q \in listable : marker < q /\ q < r}) < PageSize}
IsTruncated == \E r \in listable \ Page : r > marker

\* What the service lists, it lists in order.
InOrder(ranks) ==
    CHOOSE s \in [1 .. Cardinality(ranks) -> ranks] : \A i, j \in DOMAIN s : i < j => s[i] < s[j]

\* Defect: the marker is not set before the loop goes on.
ListPageAgain ==
    /\ step = "page"
    /\ sub_file_list' = sub_file_list \o InOrder(Page \cap Files) \o InOrder(Page \cap SubFolders)
    /\ IF IsTruncated THEN UNCHANGED <<step, returned>> ELSE Return("true")
    /\ Len(sub_file_list) <= 2 * Cardinality(Ranks)
    /\ UNCHANGED <<call, target, object, listable, marker, throughout, ever, keptBack, changes>>

\* oss_get_sub_paths(): the files of a page, then its folders, all into
\* sub_file_list.
ListPage ==
    /\ step = "page"
    /\ sub_file_list' = sub_file_list \o InOrder(Page \cap Files) \o InOrder(Page \cap SubFolders)
    /\ IF IsTruncated THEN marker' = Max(Page) /\ UNCHANGED <<step, returned>>
                      ELSE Return("true") /\ UNCHANGED marker
    /\ UNCHANGED <<call, target, object, listable, throughout, ever, keptBack, changes>>

ListFails ==
    /\ step = "page"
    /\ Return("false")
    /\ UNCHANGED <<call, target, object, listable, marker, sub_file_list, throughout, ever, keptBack, changes>>

\* Defect: the object is put whatever HEAD answers.
HeadAnyway ==
    /\ step = "head"
    /\ step' = "put" /\ UNCHANGED <<returned, keptBack>>
    /\ UNCHANGED <<call, target, object, listable, marker, sub_file_list, throughout, ever, changes>>

\* oss_create_directory(): any failure counts as "not there".
HeadDirectory ==
    /\ step = "head"
    /\ \/ object # "absent" /\ Return("true") /\ UNCHANGED keptBack
       \/ object = "absent" /\ step' = "put" /\ UNCHANGED <<returned, keptBack>>
       \/ step' = "put" /\ keptBack' = TRUE /\ UNCHANGED returned
    /\ UNCHANGED <<call, target, object, listable, marker, sub_file_list, throughout, ever, changes>>

\* PutObject(), of an empty stream, or of what is uploaded: it replaces what is
\* there.  If the answer is lost it may have.
PutObject ==
    /\ step = "put"
    /\ \/ /\ object' = IF call = "create" THEN "empty" ELSE "content"
          /\ Return("true") \/ Return("false")
       \/ Return("false") /\ UNCHANGED object
    /\ UNCHANGED <<call, target, listable, marker, sub_file_list, throughout, ever, keptBack, changes>>

-----------------------------------------------------------------------------
(* Others, at any moment.                                                  *)

Change == changes < MaxChanges /\ changes' = changes + 1

PutByOther(r) ==
    /\ Change
    /\ listable' = listable \cup {r} /\ ever' = ever \cup {r}
    /\ UNCHANGED <<call, step, returned, target, object, marker, sub_file_list, throughout, keptBack>>

DeleteByOther(r) ==
    /\ Change
    /\ listable' = listable \ {r} /\ throughout' = throughout \ {r}
    /\ UNCHANGED <<call, step, returned, target, object, marker, sub_file_list, ever, keptBack>>

ObjectByOther ==
    /\ Change
    /\ object' \in {"absent", "content"}
    /\ keptBack' = TRUE
    /\ UNCHANGED <<call, step, returned, target, listable, marker, sub_file_list, throughout, ever>>

OssNext ==
    \/ Call \/ ListPage \/ ListFails \/ HeadDirectory \/ PutObject
    \/ \E r \in Ranks : PutByOther(r) \/ DeleteByOther(r)
    \/ ObjectByOther

OssSpec == OssInit /\ [][OssNext]_ossVars
-----------------------------------------------------------------------------
(* Properties.                                                             *)

(* A listing that returns true holds, once, everything that was in the     *)
(* folder all along, and nothing that never was, whatever is put and       *)
(* deleted between its pages.                                              *)
ListsWhatIsThere ==
    /\ OssTypeOK
    /\ IsInjective(sub_file_list) /\ ToSet(sub_file_list) \subseteq ever
    /\ call = "list" /\ returned = "true" => throughout \subseteq ToSet(sub_file_list)

(* Nothing but a HEAD that was not answered, or a PUT of others after it,  *)
(* lets create() empty an object that has content.                         *)
EmptiesNothing == call = "create" /\ object = "content" /\ object' = "empty" => keptBack

(* A call acts on the object its path means, however many separators of    *)
(* either kind it is written with, and is refused only if it means none.   *)
(* Creating a directory empties no object that was there before.           *)
CreateKeepsContent ==
    /\ [](target # "another")
    /\ [][EmptiesNothing]_ossVars
=============================================================================
