------------------------------ MODULE StorageV2 ------------------------------
(***************************************************************************)
(* The second generation of the back ends, storage/v2/{s3,tencos,minio,    *)
(* local}.  Their handlers repeat those of package storage statement by    *)
(* statement, apart from comments, so each is the operator of its          *)
(* predecessor under the name of its own code.                             *)
(***************************************************************************)
EXTENDS Storage

V2S3Save(k, c) == stKind = "s3" /\ S3Save(k, c)
V2CosSave(k, c) == stKind = "cos" /\ CosSave(k, c)
V2MinioSave(k, c) == stKind = "minio" /\ MinioSave(k, c)
V2LocalSave(k, c) == stKind = "local" /\ LocalSave(k, c)
V2Save(k, c) == V2S3Save(k, c) \/ V2CosSave(k, c) \/ V2MinioSave(k, c) \/ V2LocalSave(k, c)

V2S3Delete(k) == stKind = "s3" /\ S3Delete(k)
V2CosDelete(k) == stKind = "cos" /\ CosDelete(k)
V2MinioDelete(k) == stKind = "minio" /\ MinioDelete(k)
V2LocalDelete(k) == stKind = "local" /\ LocalDelete(k)
V2Delete(k) == V2S3Delete(k) \/ V2CosDelete(k) \/ V2MinioDelete(k) \/ V2LocalDelete(k)

V2S3copyObject(it) == stKind = "s3" /\ S3copyObject(it.from, it.to)
V2CoscopyObject(it) == stKind = "cos" /\ CoscopyObject(it.from, it.to)
V2MiniocopyObject(it) == stKind = "minio" /\ MiniocopyObject(it.from, it.to)
V2LocalcopyFile(it) == stKind = "local" /\ LocalcopyFile(it.from, it.to)
V2Copy(it) ==
  V2S3copyObject(it) \/ V2CoscopyObject(it) \/ V2MiniocopyObject(it) \/ V2LocalcopyFile(it)

V2S3copyDirectory(it) == stKind = "s3" /\ S3copyDirectory(it)
V2CoscopyDirectory(it) == stKind = "cos" /\ CoscopyDirectory(it)
V2MiniocopyDirectory(it) == stKind = "minio" /\ MiniocopyDirectory(it)
V2LocalcopyDirectory(it) == stKind = "local" /\ LocalcopyDirectory(it)
V2List(it) ==
  \/ V2S3copyDirectory(it) \/ V2CoscopyDirectory(it)
  \/ V2MiniocopyDirectory(it) \/ V2LocalcopyDirectory(it)

V2S3isDirectory(p) == S3isDirectory(p)
V2CosisDirectory(p) == CosisDirectory(p)
V2MinioisDirectory(p) == MinioisDirectory(p)
V2S3CopyDir(s, d) == ObjectCopyDir("s3", s, d, V2S3isDirectory(s))
V2CosCopyDir(s, d) == ObjectCopyDir("cos", s, d, V2CosisDirectory(s))
V2MinioCopyDir(s, d) == ObjectCopyDir("minio", s, d, V2MinioisDirectory(s))
V2LocalCopyDir(s, d) == LocalCopyDir(s, d)
V2UploadDirectory(d) == UploadDirectory(d)

StV2Next ==
  \/ \E c \in StCopies :
       \/ V2S3CopyDir(c[1], c[2]) \/ V2CosCopyDir(c[1], c[2])
       \/ V2MinioCopyDir(c[1], c[2]) \/ V2LocalCopyDir(c[1], c[2])
       \/ V2UploadDirectory(c[2])
  \/ \E k \in StOthers : OtherClient(k, V2Save, V2Delete)
  \/ StStepWith(V2List, V2Copy, V2Save) \/ StFail
=============================================================================
