-------------------------- MODULE InstanceRecords --------------------------
(* Instances with their credentials and tags: InstanceWriteService,         *)
(* InstanceBatchDeletionService, CredentialWriteService, TagWriteService and*)
(* TagsBulkActionsService.                                                  *)
EXTENDS RequestTx

CONSTANTS Instances, Credentials, Tags,
          NoCredential      \* credential_id NULL

\* instances: the rows there are.  A row is recycled while deleted_at is set.
\* links: instance_tags.  bound: the instances and credentials that a foreign
\* key of a row outside the deletion's list refers to (cluster bindings,
\* configuration snapshots, table sizes; AGs, AD domains, other sources).
VARIABLES instances, credentials, tags, links, bound

recordVars == <<instances, credentials, tags, links, bound>>

InstanceRows ==
    [active : BOOLEAN, recycled : BOOLEAN, credential : Credentials \cup {NoCredential}]

InstanceInit ==
    /\ instances = [i \in Instances |->
                      [active |-> TRUE, recycled |-> FALSE, credential |-> NoCredential]]
    /\ credentials = Credentials
    /\ tags = Tags
    /\ links = {}
    /\ bound \in {{}, Instances \cup Credentials}

\* The tables a check reads.
Tables == [instances |-> instances, tags |-> tags, links |-> links]

\* update: only a row outside the recycle bin; tags are resolved by name when
\* they are written.
InstanceUpdate(r, i, active, cred, ts) ==
    /\ i \in DOMAIN instances
    /\ ~instances[i].recycled
    /\ cred \in credentials \cup {NoCredential}
    /\ Accept(r, "instance_update", i, Tables,
              [active |-> active, credential |-> cred, tags |-> ts])
    /\ UNCHANGED recordVars

\* soft_delete, and the batch with deletion_mode "soft".
SoftDelete(r, i) ==
    /\ i \in DOMAIN instances
    /\ Accept(r, "instance_write", i, Tables, [active |-> FALSE, recycled |-> TRUE])
    /\ UNCHANGED recordVars

Restore(r, i) ==
    /\ i \in DOMAIN instances
    /\ instances[i].recycled
    /\ Accept(r, "instance_write", i, Tables, [active |-> TRUE, recycled |-> FALSE])
    /\ UNCHANGED recordVars

HardDelete(r, i) ==
    /\ i \in DOMAIN instances
    /\ Accept(r, "instance_delete", i, Tables, << >>)
    /\ UNCHANGED recordVars

CredentialDelete(r, k) ==
    /\ k \in credentials
    /\ Accept(r, "credential_delete", k, Tables,
              {i \in DOMAIN instances : instances[i].credential = k})
    /\ UNCHANGED recordVars

\* delete refuses a tag that instances still carry.
TagDelete(r, t) ==
    /\ t \in tags
    /\ \A l \in links : l[2] # t
    /\ Accept(r, "tag_delete", t, Tables, << >>)
    /\ UNCHANGED recordVars

\* assign, remove and remove_all: what to insert or delete is decided from
\* the links that were read.
TagAssign(r, is, ts) ==
    /\ is \cap DOMAIN instances # {} /\ ts \cap tags # {}
    /\ Accept(r, "tag_assign", is, Tables,
              ((is \cap DOMAIN instances) \X (ts \cap tags)) \ links)
    /\ UNCHANGED recordVars

TagRemove(r, is, ts) ==
    /\ is \cap DOMAIN instances # {} /\ ts \cap tags # {}
    /\ Accept(r, "tag_remove", is, Tables, (is \X ts) \cap links)
    /\ UNCHANGED recordVars

InstanceOps == {"instance_update", "instance_write", "instance_delete",
                "credential_delete", "tag_delete", "tag_assign", "tag_remove"}

----------------------------------------------------------------------------
(* The flush and the commit.  A refusal of the database leaves everything.  *)

UpdateWrite(tx) ==
    LET i == tx.key IN
    /\ IF /\ i \in DOMAIN instances
          /\ tx.new.credential \in credentials \cup {tx.seen.instances[i].credential, NoCredential}
       THEN /\ instances' = [instances EXCEPT ![i] = Merged(@, tx.seen.instances[i], tx.new)]
            /\ links' = {l \in links : l[1] # i} \cup ({i} \X (tx.new.tags \cap tags))
       ELSE UNCHANGED <<instances, links>>
    /\ UNCHANGED <<credentials, tags, bound>>

RowWrite(tx) ==
    LET i == tx.key IN
    /\ instances' = IF i \in DOMAIN instances
                    THEN [instances EXCEPT ![i] = Merged(@, tx.seen.instances[i], tx.new)]
                    ELSE instances
    /\ UNCHANGED <<credentials, tags, links, bound>>

\* The related rows of the list go first; a row outside the list refers to the
\* instance still, and its foreign key refuses the deletion.
HardDeleteWrite(tx) ==
    LET i == tx.key IN
    /\ IF i \in DOMAIN instances /\ i \notin bound
       THEN /\ instances' = Without(instances, {i})
            /\ links' = {l \in links : l[1] # i}
       ELSE UNCHANGED <<instances, links>>
    /\ UNCHANGED <<credentials, tags, bound>>

\* The ORM sets credential_id of the instances it loaded to NULL, and the
\* foreign key refuses the deletion when another one took it meanwhile.
CredentialWrite(tx) ==
    LET taken == {i \in DOMAIN instances : instances[i].credential = tx.key} IN
    /\ IF tx.key \in credentials \ bound /\ taken \subseteq tx.new /\ tx.new \subseteq DOMAIN instances
       THEN /\ credentials' = credentials \ {tx.key}
            /\ instances' = [i \in DOMAIN instances |->
                               IF i \in tx.new THEN [instances[i] EXCEPT !.credential = NoCredential]
                                               ELSE instances[i]]
       ELSE UNCHANGED <<credentials, instances>>
    /\ UNCHANGED <<tags, links, bound>>

\* Links to the tag are deleted with it, the ones made since the check too.
TagDeleteWrite(tx) ==
    /\ tags' = tags \ {tx.key}
    /\ links' = {l \in links : l[2] # tx.key}
    /\ UNCHANGED <<instances, credentials, bound>>

\* An INSERT of a link that is there, or of a row that is gone, and a DELETE of
\* a link that is gone, fail the request as a whole.
LinkWrite(tx) ==
    /\ links' = IF tx.op = "tag_assign"
                THEN IF tx.new \cap links = {} /\ tx.new \subseteq ((DOMAIN instances) \X tags)
                     THEN links \cup tx.new ELSE links
                ELSE IF tx.new \subseteq links THEN links \ tx.new ELSE links
    /\ UNCHANGED <<instances, credentials, tags, bound>>

InstanceWrite(r) ==
    LET tx == req[r] IN
    /\ \/ tx.op = "instance_update" /\ UpdateWrite(tx)
       \/ tx.op = "instance_write" /\ RowWrite(tx)
       \/ tx.op = "instance_delete" /\ HardDeleteWrite(tx)
       \/ tx.op = "credential_delete" /\ CredentialWrite(tx)
       \/ tx.op = "tag_delete" /\ TagDeleteWrite(tx)
       \/ tx.op \in {"tag_assign", "tag_remove"} /\ LinkWrite(tx)
    /\ Answer(r)

InstanceCheck(r) ==
    \/ \E i \in Instances :
         \/ \E active \in BOOLEAN, cred \in Credentials \cup {NoCredential}, ts \in SUBSET Tags :
               InstanceUpdate(r, i, active, cred, ts)
         \/ SoftDelete(r, i)
         \/ Restore(r, i)
         \/ HardDelete(r, i)
    \/ \E k \in Credentials : CredentialDelete(r, k)
    \/ \E t \in Tags : TagDelete(r, t)
    \/ \E is \in SUBSET Instances, ts \in SUBSET Tags : TagAssign(r, is, ts) \/ TagRemove(r, is, ts)

InstanceTypeOK ==
    /\ DOMAIN instances \subseteq Instances
    /\ \A i \in DOMAIN instances : instances[i] \in InstanceRows
    /\ credentials \subseteq Credentials /\ tags \subseteq Tags
=============================================================================
