----------------------------- MODULE MultipartV2 -----------------------------
(***************************************************************************)
(* The multipart calls of the second generation of the back ends,          *)
(* storage/v2/{s3,tencos,minio,local}, which repeat those of package       *)
(* storage statement by statement.                                         *)
(***************************************************************************)
EXTENDS Multipart

V2S3Create(c) == S3CreateMultipartUpload(c)
V2CosCreate(c) == CosCreateMultipartUpload(c)
V2MinioCreate(c) == MinioCreateMultipartUpload(c)
V2LocalMultipart(c) == LocalMultipart(c)
V2S3UploadPart(c, n) == S3UploadPart(c, n)
V2CosUploadPart(c, n) == CosUploadPart(c, n)
V2MinioUploadPart(c, n) == MinioUploadPart(c, n)
V2S3Complete(c) == S3CompleteMultipartUpload(c)
V2CosComplete(c) == CosCompleteMultipartUpload(c)
V2MinioComplete(c) == MinioCompleteMultipartUpload(c)
V2S3Abort(c) == S3AbortMultipartUpload(c)
V2CosAbort(c) == CosAbortMultipartUpload(c)
V2MinioAbort(c) == MinioAbortMultipartUpload(c)

V2S3GeneratePresignedURL(m, c, n) == S3GeneratePresignedURL(m, c, n)
V2CosGeneratePresignedURL(m, c, n) == CosGeneratePresignedURL(m, c, n)
V2S3GetPresignedURL(m, c) == S3GetPresignedURL(m, c)
V2CosGetPresignedURL(m, c) == CosGetPresignedURL(m, c)
V2MinioGetPresignedURL(m, c) == MinioGetPresignedURL(m, c)
V2Signed(m, c, n) ==
  CASE muKind = "s3" -> V2S3GeneratePresignedURL(m, c, n) \cup V2S3GetPresignedURL(m, c)
    [] muKind = "cos" -> V2CosGeneratePresignedURL(m, c, n) \cup V2CosGetPresignedURL(m, c)
    [] muKind = "minio" -> V2MinioGetPresignedURL(m, c)
    [] muKind = "local" -> {}

MuV2Next ==
  \/ \E c \in MuClients :
       \/ V2S3Create(c) \/ V2CosCreate(c) \/ V2MinioCreate(c) \/ V2LocalMultipart(c)
       \/ \E n \in MuNumbers : V2S3UploadPart(c, n) \/ V2CosUploadPart(c, n) \/ V2MinioUploadPart(c, n)
       \/ V2S3Complete(c) \/ V2CosComplete(c) \/ V2MinioComplete(c)
       \/ V2S3Abort(c) \/ V2CosAbort(c) \/ V2MinioAbort(c)
       \/ \E m \in {"GET", "PUT"}, n \in 0..MuParts : HandOut(c, V2Signed(m, c, n))
  \/ \E u \in muUrls : UseUrl(u)

MuV2Spec == MuInit /\ [][MuV2Next]_multiVars
=============================================================================
