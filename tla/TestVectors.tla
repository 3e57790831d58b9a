------------------------------ MODULE TestVectors ------------------------------
\* Bytes that src/testdata/vector_001.json determines.
EXTENDS Words

\* The bean behind X-Argus of src/testdata/vector_001.json.
VectorBean == Octets(<<
  8, 210, 164, 128, 130, 4, 16, 2, 24, 149, 154, 239, 58, 34, 4, 49, 50,
  51, 51, 42, 19, 55, 52, 52, 50, 48, 48, 48, 48, 48, 48, 48, 48, 48,
  48, 48, 48, 48, 48, 49, 50, 10, 49, 54, 49, 49, 57, 50, 49, 55, 54,
  52, 58, 6, 52, 49, 46, 57, 46, 51, 66, 20, 118, 48, 53, 46, 48, 48,
  46, 48, 54, 45, 111, 118, 45, 97, 110, 100, 114, 111, 105, 100, 72,
  192, 152, 128, 80, 82, 8, 0, 0, 0, 0, 0, 0, 0, 0, 88, 0, 96, 128, 196,
  159, 213, 12, 106, 6, 72, 143, 22, 141, 183, 67, 114, 6, 7, 77, 122,
  214, 47, 50, 122, 12, 8, 1, 16, 1, 24, 1, 56, 204, 217, 203, 188, 12,
  130, 1, 21, 115, 101, 99, 100, 101, 118, 49, 50, 51, 52, 53, 54, 55,
  56, 57, 65, 66, 67, 68, 69, 70, 162, 1, 4, 110, 111, 110, 101, 168, 1,
  226, 5, 186, 1, 17, 10, 6, 78, 88, 53, 53, 49, 74, 16, 132, 64, 32,
  128, 176, 131, 135, 8, 200, 1, 2>>)

================================================================================
